---- MODULE Spec2Model ----
(***************************************************************************)
(* A model of cylon: the robots.txt compiler (src/src/parse.rs) and the    *)
(* non-deterministic matcher it builds (src/src/nfa.rs).                   *)
(*                                                                         *)
(* Bytes are integers.  A byte string is a sequence of bytes.  A Rule is a *)
(* record [kind, inner]; a Node is a record [accept, edges, weight,        *)
(* wildcards]; Cylon.states is a sequence of Nodes whose Rust index s is   *)
(* position s + 1 of the sequence.  An Option is a sequence of length 0    *)
(* (None) or 1 (Some).                                                     *)
(***************************************************************************)
EXTENDS Integers, Sequences, FiniteSets, TLC

\* ----------------------------------------------------------------- bytes

EOW_BYTE == 36

WILDCARD_BYTE == 42

\* b"/" , the path the query substitutes for the empty path
SLASH == 47

\* the two literal bytes of the patterns and one byte that no pattern holds
LetterBytes == {SLASH, 97}

OtherBytes == {98}

\* ---------------------------------------------------------------- bounds

\* longest pattern of a rule list that holds a single rule
MaxPatLen == 4

\* longest path asked of a matcher built from a single rule
MaxPathLen == 4

\* ------------------------------------------------------- byte strings

Last(s) == s[Len(s)]

Range(s) == {s[i] : i \in DOMAIN s}

\* slice::starts_with
starts_with(s, prefix) ==
    /\ Len(prefix) <= Len(s)
    /\ SubSeq(s, 1, Len(prefix)) = prefix

\* Ord::cmp on byte slices: lexicographic, a proper prefix is less
RECURSIVE BytesLess(_, _)
BytesLess(a, b) ==
    IF b = <<>> THEN FALSE
    ELSE IF a = <<>> THEN TRUE
    ELSE IF Head(a) # Head(b) THEN Head(a) < Head(b)
    ELSE BytesLess(Tail(a), Tail(b))

\* all byte strings over alphabet of length lo..hi
RECURSIVE StringsOfLen(_, _)
StringsOfLen(alphabet, n) ==
    IF n = 0 THEN {<<>>}
    ELSE {Append(s, b) : s \in StringsOfLen(alphabet, n - 1), b \in alphabet}

Strings(alphabet, lo, hi) == UNION {StringsOfLen(alphabet, n) : n \in lo..hi}

\* ------------------------------------------------------------ nfa.rs

Rule(kind, inner) == [kind |-> kind, inner |-> inner]

Node(accept, weight) ==
    [accept |-> accept, edges |-> <<>>, weight |-> weight, wildcards |-> <<>>]

add_edge(node, edge, state) == [node EXCEPT !.edges = Append(@, <<edge, state>>)]

add_wildcard(node, state) == [node EXCEPT !.wildcards = Append(@, state)]

\* the states a node hands on for one input byte, as the set allow() extends
follow_edges(node, edge, fallback) ==
    {node.edges[i][2] : i \in {j \in DOMAIN node.edges : node.edges[j][1] = edge}}
        \cup Range(node.wildcards)
        \cup (IF node.wildcards = <<>> THEN {fallback} ELSE {})

normalized_weight(node) ==
    IF node.accept = "Allow" THEN 1 + 2 * node.weight ELSE 2 * node.weight

\* states.get(s).unwrap() and its write-back
At(states, s) == states[s + 1]

SetAt(states, s, node) == [states EXCEPT ![s + 1] = node]

QueueItem(parent_prefix, parent_state, epsilon_state) ==
    [parent_prefix |-> parent_prefix, parent_state |-> parent_state,
     epsilon_state |-> epsilon_state]

\* rules.sort_by(|a, b| Ord::cmp(a.inner(), b.inner())): a stable sort
RECURSIVE InsertRule(_, _)
InsertRule(sorted, rule) ==
    IF sorted = <<>> THEN <<rule>>
    ELSE IF BytesLess(rule.inner, Head(sorted).inner)
         THEN <<rule>> \o sorted
         ELSE <<Head(sorted)>> \o InsertRule(Tail(sorted), rule)

RECURSIVE sort_by(_)
sort_by(rules) ==
    IF rules = <<>> THEN <<>>
    ELSE InsertRule(sort_by(SubSeq(rules, 1, Len(rules) - 1)), Last(rules))

\* for (_, e) in parent_node.edges.clone() { states[e].add_wildcard(state) }
RECURSIVE AddSiblingWildcards(_, _, _, _)
AddSiblingWildcards(states, edges, i, state) ==
    IF i > Len(edges) THEN states
    ELSE LET e == edges[i][2]
         IN AddSiblingWildcards(SetAt(states, e, add_wildcard(At(states, e), state)),
                                edges, i + 1, state)

\* a child that inherits none of its parent's wildcard edges
InheritNoWildcards(child, wildcards, i, state, is_terminal) ==
    child

\* for e in parent_node.wildcards.iter() { if state != *e && !is_terminal ... }
RECURSIVE InheritWildcards(_, _, _, _, _)
InheritWildcards(child, wildcards, i, state, is_terminal) ==
    IF i > Len(wildcards) THEN child
    ELSE InheritWildcards(
            IF state # wildcards[i] /\ ~is_terminal
                THEN add_wildcard(child, wildcards[i]) ELSE child,
            wildcards, i + 1, state, is_terminal)

\* if let Some(grandparent_state) = epsilon_state { add_edge(edge, state) }
EpsilonEdge(states, epsilon_state, edge, state) ==
    IF epsilon_state = <<>> THEN states
    ELSE LET g == epsilon_state[1]
         IN SetAt(states, g, add_edge(At(states, g), edge, state))

\* The arms of `match edge` take acc = [states, queue], the queue item being
\* expanded, the prefix of the new node, its accept_state and is_terminal;
\* each returns acc after the rest of the loop body (the epsilon edge, the
\* pushes onto states and queue).

\* WILDCARD_BYTE if parent_edge != Some(&WILDCARD_BYTE)
WildcardArm(acc, item, prefix, accept_state, is_terminal) ==
    LET parent_state == item.parent_state
        state == Len(acc.states)
        child == add_wildcard(Node(accept_state, Len(prefix)), state)
        p1 == add_wildcard(At(acc.states, parent_state), state)
        p2 == IF is_terminal THEN [p1 EXCEPT !.accept = accept_state] ELSE p1
        s1 == SetAt(acc.states, parent_state, p2)
        s2 == AddSiblingWildcards(s1, p2.edges, 1, state)
        s3 == EpsilonEdge(s2, item.epsilon_state, Last(prefix), state)
    IN [states |-> Append(s3, child),
        queue |-> Append(acc.queue, QueueItem(prefix, state, <<parent_state>>))]

\* WILDCARD_BYTE after a WILDCARD_BYTE: no node is made, the queue item keeps
\* the parent's state, and the loop `continue`s
RepeatedWildcardArm(acc, item, prefix, accept_state, is_terminal) ==
    [states |-> acc.states,
     queue |-> Append(acc.queue, QueueItem(prefix, item.parent_state, <<>>))]

\* an EOW_BYTE arm that leaves the accept states of parent and child as made
EowArmNoSwap(acc, item, prefix, accept_state, is_terminal) ==
    LET parent_state == item.parent_state
        state == Len(acc.states)
        p1 == add_wildcard(At(acc.states, parent_state), state)
        child == Node(accept_state, Len(prefix))
        s1 == SetAt(acc.states, parent_state, p1)
        s2 == EpsilonEdge(s1, item.epsilon_state, Last(prefix), state)
    IN [states |-> Append(s2, child),
        queue |-> Append(acc.queue, QueueItem(prefix, state, <<>>))]

\* EOW_BYTE
EowArm(acc, item, prefix, accept_state, is_terminal) ==
    LET parent_state == item.parent_state
        state == Len(acc.states)
        p1 == add_wildcard(At(acc.states, parent_state), state)
        child == [Node(accept_state, Len(prefix)) EXCEPT !.accept = p1.accept]
        p2 == [p1 EXCEPT !.accept = accept_state, !.weight = child.weight]
        s1 == SetAt(acc.states, parent_state, p2)
        s2 == EpsilonEdge(s1, item.epsilon_state, Last(prefix), state)
    IN [states |-> Append(s2, child),
        queue |-> Append(acc.queue, QueueItem(prefix, state, <<>>))]

\* a literal arm that makes no sink node behind a terminal node
LiteralArmNoSink(acc, item, prefix, accept_state, is_terminal) ==
    LET parent_state == item.parent_state
        state == Len(acc.states)
        p1 == add_edge(At(acc.states, parent_state), Last(prefix), state)
        c1 == InheritWildcards(Node(accept_state, Len(prefix)), p1.wildcards, 1,
                               state, is_terminal)
        child == IF is_terminal THEN add_wildcard(c1, state + 1) ELSE c1
        s1 == SetAt(acc.states, parent_state, p1)
        s2 == EpsilonEdge(s1, item.epsilon_state, Last(prefix), state)
    IN [states |-> Append(s2, child),
        queue |-> Append(acc.queue, QueueItem(prefix, state, <<>>))]

\* edge => (any other byte)
LiteralArm(acc, item, prefix, accept_state, is_terminal) ==
    LET parent_state == item.parent_state
        state == Len(acc.states)
        p1 == add_edge(At(acc.states, parent_state), Last(prefix), state)
        c1 == InheritWildcards(Node(accept_state, Len(prefix)), p1.wildcards, 1,
                               state, is_terminal)
        child == IF is_terminal THEN add_wildcard(c1, state + 1) ELSE c1
        s1 == SetAt(acc.states, parent_state, p1)
        s2 == EpsilonEdge(s1, item.epsilon_state, Last(prefix), state)
        s3 == Append(s2, child)
    IN [states |-> IF is_terminal
                      THEN Append(s3, Node(accept_state, Len(prefix)))
                      ELSE s3,
        queue |-> Append(acc.queue, QueueItem(prefix, state, <<>>))]

\* One pass of the body of `for rule in rules.iter()` for a prefix that the
\* three `continue` guards let through.
VisitPrefix(acc, item, rule, prefix) ==
    LET is_terminal == prefix = rule.inner
        accept_state ==
            IF is_terminal
                THEN (IF rule.kind = "Disallow" THEN "Disallow" ELSE "Allow")
                ELSE At(acc.states, item.parent_state).accept
        edge == Last(prefix)
        parent_is_wildcard ==
            item.parent_prefix # <<>> /\ Last(item.parent_prefix) = WILDCARD_BYTE
    IN
    IF edge = WILDCARD_BYTE /\ ~parent_is_wildcard
        THEN WildcardArm(acc, item, prefix, accept_state, is_terminal)
    ELSE IF edge = WILDCARD_BYTE
        THEN RepeatedWildcardArm(acc, item, prefix, accept_state, is_terminal)
    ELSE IF edge = EOW_BYTE
        THEN EowArm(acc, item, prefix, accept_state, is_terminal)
    ELSE LiteralArm(acc, item, prefix, accept_state, is_terminal)

\* `for rule in rules.iter()` from rule i on, for one queue item
RECURSIVE RuleLoop(_, _, _, _, _)
RuleLoop(rules, item, i, last_prefix, acc) ==
    IF i > Len(rules) THEN acc
    ELSE
        LET inner == rules[i].inner
            n == Len(item.parent_prefix) + 1
        IN
        IF Len(inner) < n THEN RuleLoop(rules, item, i + 1, last_prefix, acc)
        ELSE
            LET prefix == SubSeq(inner, 1, n)
            IN
            IF ~starts_with(prefix, item.parent_prefix)
                THEN RuleLoop(rules, item, i + 1, last_prefix, acc)
            ELSE IF last_prefix = prefix
                THEN RuleLoop(rules, item, i + 1, last_prefix, acc)
            ELSE RuleLoop(rules, item, i + 1, prefix,
                          VisitPrefix(acc, item, rules[i], prefix))

\* `while let Some(item) = queue.pop_front()`
RECURSIVE QueueLoop(_, _)
QueueLoop(rules, acc) ==
    IF acc.queue = <<>> THEN acc.states
    ELSE QueueLoop(rules,
                   RuleLoop(rules, Head(acc.queue), 1, <<>>,
                            [states |-> acc.states, queue |-> Tail(acc.queue)]))

\* a compile whose root takes the verdict of a rule with the empty pattern
compile_empty_at_root(rules) ==
    LET sorted == sort_by(rules)
        accept == IF sorted # <<>> /\ sorted[1].inner = <<>>
                        /\ sorted[1].kind = "Disallow"
                    THEN "Disallow" ELSE "Allow"
        first == add_wildcard(Node(accept, 0), 1)
        second == Node(accept, 0)
    IN QueueLoop(sorted,
                 [states |-> <<first, second>>,
                  queue |-> <<QueueItem(<<>>, 0, <<>>)>>])

\* nfa::Cylon::compile: the states of the matcher
nfa_compile(rules) ==
    LET first == add_wildcard(Node("Allow", 0), 1)
        second == Node("Allow", 0)
    IN QueueLoop(sort_by(rules),
                 [states |-> <<first, second>>,
                  queue |-> <<QueueItem(<<>>, 0, <<>>)>>])

\* the active states after the bytes i.. of path, from the active set current
RECURSIVE ActiveStates(_, _, _, _)
ActiveStates(states, path, i, current_states) ==
    IF i > Len(path) THEN current_states
    ELSE ActiveStates(states, path, i + 1,
            UNION {follow_edges(At(states, s), path[i], s) :
                        s \in {t \in current_states : t < Len(states)}})

\* max_by_key(normalized_weight) over the active states in ascending order:
\* the last state among those of greatest key
best_match(states, active) ==
    LET live == {s \in active : s < Len(states)}
        top == {s \in live : \A t \in live :
                    normalized_weight(At(states, t)) <= normalized_weight(At(states, s))}
    IN CHOOSE s \in top : \A t \in top : t <= s

\* an allow that walks the empty path as it is
allow_as_given(states, path) ==
    LET active == ActiveStates(states, path, 1, {0})
    IN IF {s \in active : s < Len(states)} = {} THEN TRUE
       ELSE At(states, best_match(states, active)).accept = "Allow"

\* nfa::Cylon::allow
nfa_allow(states, path) ==
    LET p == IF path = <<>> THEN <<SLASH>> ELSE path
        active == ActiveStates(states, p, 1, {0})
    IN IF {s \in active : s < Len(states)} = {} THEN TRUE
       ELSE At(states, best_match(states, active)).accept = "Allow"

\* ------------------------------------------------------------- dfa.rs

\* enum Edge
MatchByte(c) == [kind |-> "MatchByte", byte |-> c]

MatchAny == [kind |-> "MatchAny", byte |-> 0]

MatchEow == [kind |-> "MatchEow", byte |-> 0]

\* struct Transition(Edge, usize)
Transition(edge, next_state) == [edge |-> edge, next |-> next_state]

\* an entry of the BFS queue: (parent_prefix, wildcard_state, parent_state, state)
DfaItem(parent_prefix, wildcard_state, parent_state, state) ==
    [parent_prefix |-> parent_prefix, wildcard_state |-> wildcard_state,
     parent_state |-> parent_state, state |-> state]

\* parent_prefix.last() == Some(&byte)
LastIs(prefix, byte) == prefix # <<>> /\ Last(prefix) = byte

\* `wildcard_state = match state { .. }`
dfa_wildcard_state(item) ==
    IF item.state = "Allow" THEN 0
    ELSE IF item.state = "Disallow" /\ LastIs(item.parent_prefix, EOW_BYTE)
        THEN item.wildcard_state
    ELSE IF item.state \in {"Disallow", "Delay"} THEN 1
    ELSE item.wildcard_state

\* a closure for which `$` labels an edge like any other byte
DfaVisitChildEowAsByte(acc, item, wildcard_state, rule, child_prefix) ==
    LET eow == child_prefix = rule.inner
        state == IF eow THEN rule.kind ELSE "Intermediate"
        queue == Append(acc.queue,
                        DfaItem(child_prefix, wildcard_state, Len(acc.transitions), state))
        child_index == Len(acc.transitions) + Len(queue)
        edge_char == Last(child_prefix)
        transition ==
            Transition(IF edge_char = WILDCARD_BYTE THEN MatchAny
                       ELSE MatchByte(edge_char),
                       child_index)
    IN [transitions |->
            IF LastIs(item.parent_prefix, WILDCARD_BYTE)
                THEN [acc.transitions EXCEPT ![item.parent_state + 1] = Append(@, transition)]
                ELSE acc.transitions,
        queue |-> queue,
        t |-> Append(acc.t, transition),
        curr_prefix |-> child_prefix]

\* the closure of for_each for a child_prefix not seen yet; acc = [transitions,
\* queue, t, curr_prefix]
DfaVisitChild(acc, item, wildcard_state, rule, child_prefix) ==
    LET eow == child_prefix = rule.inner
        state == IF eow THEN rule.kind ELSE "Intermediate"
        queue == Append(acc.queue,
                        DfaItem(child_prefix, wildcard_state, Len(acc.transitions), state))
        child_index == Len(acc.transitions) + Len(queue)
        edge_char == Last(child_prefix)
        transition ==
            Transition(IF edge_char = WILDCARD_BYTE THEN MatchAny
                       ELSE IF edge_char = EOW_BYTE THEN MatchEow
                       ELSE MatchByte(edge_char),
                       child_index)
    IN [transitions |->
            IF LastIs(item.parent_prefix, WILDCARD_BYTE)
                THEN [acc.transitions EXCEPT ![item.parent_state + 1] = Append(@, transition)]
                ELSE acc.transitions,
        queue |-> queue,
        t |-> Append(acc.t, transition),
        curr_prefix |-> child_prefix]

\* rules.iter()...filter(starts_with).filter(!=).for_each(..) from rule i on
RECURSIVE DfaRuleLoop(_, _, _, _, _)
DfaRuleLoop(rules, item, wildcard_state, i, acc) ==
    IF i > Len(rules) THEN acc
    ELSE
        LET rule_path == rules[i].inner
            parent_prefix == item.parent_prefix
        IN
        IF ~starts_with(rule_path, parent_prefix) \/ rule_path = parent_prefix
            THEN DfaRuleLoop(rules, item, wildcard_state, i + 1, acc)
        ELSE
            LET child_prefix == SubSeq(rule_path, 1, Len(parent_prefix) + 1)
            IN
            IF acc.curr_prefix = child_prefix
                THEN DfaRuleLoop(rules, item, wildcard_state, i + 1, acc)
            ELSE DfaRuleLoop(rules, item, wildcard_state, i + 1,
                             DfaVisitChild(acc, item, wildcard_state, rules[i],
                                           child_prefix))

\* `while !queue.is_empty()`; m = [states, transitions, queue]
RECURSIVE DfaQueueLoop(_, _)
DfaQueueLoop(rules, m) ==
    IF m.queue = <<>> THEN [states |-> m.states, transitions |-> m.transitions]
    ELSE
        LET item == Head(m.queue)
            wildcard_state == dfa_wildcard_state(item)
            t == <<Transition(MatchAny,
                              IF LastIs(item.parent_prefix, WILDCARD_BYTE)
                                  THEN Len(m.transitions)
                                  ELSE wildcard_state)>>
            acc == DfaRuleLoop(rules, item, wildcard_state, 1,
                               [transitions |-> m.transitions, queue |-> Tail(m.queue),
                                t |-> t, curr_prefix |-> <<>>])
            pushed == IF item.state = "Intermediate"
                        THEN m.states[wildcard_state + 1]
                        ELSE item.state
        IN DfaQueueLoop(rules,
                        [states |-> Append(m.states, pushed),
                         transitions |-> Append(acc.transitions, acc.t),
                         queue |-> acc.queue])

\* dfa::Cylon::compile: the states and transitions of the matcher
dfa_compile(rules) ==
    DfaQueueLoop(sort_by(rules),
                 [states |-> <<"Allow", "Disallow">>,
                  transitions |-> <<(<<Transition(MatchAny, 0)>>),
                                    (<<Transition(MatchAny, 1)>>)>>,
                  queue |-> <<DfaItem(<<>>, 0, 0, "Intermediate")>>])

\* t.iter().rev().find(..).map(|Transition(.., next_state)| *next_state): the
\* target of the last transition whose edge is in `edges`, as an Option
rev_find(t, edges) ==
    LET hits == {i \in DOMAIN t : t[i].edge \in edges}
    IN IF hits = {} THEN <<>>
       ELSE <<t[CHOOSE i \in hits : \A j \in hits : j <= i].next>>

\* the fold of Cylon::state over the bytes i.. of path from `state`; <<>> when
\* `self.transitions[state]` or `.unwrap()` panics
RECURSIVE dfa_fold(_, _, _, _)
dfa_fold(m, path, i, state) ==
    IF i > Len(path) THEN <<state>>
    ELSE IF state >= Len(m.transitions) THEN <<>>
    ELSE LET next == rev_find(m.transitions[state + 1], {MatchAny, MatchByte(path[i])})
         IN IF next = <<>> THEN <<>>
            ELSE dfa_fold(m, path, i + 1, next[1])

\* dfa::Cylon::state, as an Option that is None when the lookup panics
dfa_state(m, path) ==
    LET folded == dfa_fold(m, path, 1, 2)
    IN IF folded = <<>> THEN <<>>
       ELSE IF folded[1] >= Len(m.transitions) THEN <<>>
       ELSE LET eow == rev_find(m.transitions[folded[1] + 1], {MatchEow, MatchAny})
            IN IF eow = <<>> THEN folded ELSE eow

\* dfa::Cylon::allow: <<TRUE>>, <<FALSE>>, or <<>> when the call panics
\* (an index out of range, unwrap() on None, unreachable!())
dfa_allow(m, path) ==
    LET state == dfa_state(m, path)
    IN IF state = <<>> THEN <<>>
       ELSE IF state[1] >= Len(m.states) THEN <<>>
       ELSE IF m.states[state[1] + 1] = "Allow" THEN <<TRUE>>
       ELSE IF m.states[state[1] + 1] = "Disallow" THEN <<FALSE>>
       ELSE <<>>

\* ------------------------------------------------------------ parse.rs

UserAgent(ua) == [type |-> "UserAgent", ua |-> ua]

RuleLine(kind, inner) == [type |-> "Rule", rule |-> Rule(kind, inner)]

Nothing == [type |-> "Nothing"]

\* parse_line did not return: a `&line[..n]` cut a character in two and the
\* task unwound
Panicked == [type |-> "Panicked"]

\* "user-agent:"
UA_PREFIX == <<117, 115, 101, 114, 45, 97, 103, 101, 110, 116, 58>>

\* "crawl-delay:"
DELAY_PREFIX == <<99, 114, 97, 119, 108, 45, 100, 101, 108, 97, 121, 58>>

\* "allow:"
ALLOW_PREFIX == <<97, 108, 108, 111, 119, 58>>

\* "disallow:"
DISALLOW_PREFIX == <<100, 105, 115, 97, 108, 108, 111, 119, 58>>

\* `#`
HASH == 35

\* char::is_whitespace on the bytes below 128: tab, LF, VT, FF, CR, space
WhiteSpace == {9, 10, 11, 12, 13, 32}

\* u8::to_ascii_lowercase, and char::to_lowercase on the bytes below 128
LowerByte(b) == IF b >= 65 /\ b <= 90 THEN b + 32 ELSE b

\* a key comparison that keeps the case of every byte
keep_ascii_case(s) == s

\* str::to_ascii_lowercase
to_ascii_lowercase(s) == [i \in DOMAIN s |-> LowerByte(s[i])]

\* a conversion that keeps the case of every byte
keep_case(s) == s

\* str::to_lowercase, for strings of bytes below 128
to_lowercase(s) == [i \in DOMAIN s |-> LowerByte(s[i])]

\* str::trim
trim(s) ==
    LET keep == {i \in DOMAIN s : s[i] \notin WhiteSpace}
    IN IF keep = {} THEN <<>>
       ELSE SubSeq(s, CHOOSE i \in keep : \A j \in keep : i <= j,
                      CHOOSE i \in keep : \A j \in keep : j <= i)

\* a line kept whole, `#` and what follows included
keep_comments(line) == line

\* strip_comments: line.split('#').next()
strip_comments(line) ==
    LET hashes == {i \in DOMAIN line : line[i] = HASH}
    IN IF hashes = {} THEN line
       ELSE SubSeq(line, 1, (CHOOSE i \in hashes : \A j \in hashes : i <= j) - 1)

\* str::is_char_boundary(i): offset i is an end of s or the byte there is no
\* continuation byte (0x80..0xBF) of a multi-byte character
is_char_boundary(s, i) ==
    \/ i = 0
    \/ i = Len(s)
    \/ i < Len(s) /\ s[i + 1] \notin 128..191

\* `&line[..PREFIX.len()]` and `&line[PREFIX.len()..]` panic: the line is long
\* enough to be sliced and the cut is no character boundary
slice_panics(line, key) ==
    Len(line) >= Len(key) /\ ~is_char_boundary(line, Len(key))

\* the shape parse_user_agent, parse_delay, parse_allow and parse_disallow
\* share: None (<<>>) or Some(suffix.trim()) (<<suffix>>)
strip_key(line, key) ==
    IF Len(line) < Len(key) THEN <<>>
    ELSE LET prefix == to_ascii_lowercase(SubSeq(line, 1, Len(key)))
             suffix == SubSeq(line, Len(key) + 1, Len(line))
         IN IF prefix = key THEN <<trim(suffix)>> ELSE <<>>

parse_user_agent(line) == strip_key(line, UA_PREFIX)

parse_delay(line) == strip_key(line, DELAY_PREFIX)

parse_allow(line) == strip_key(line, ALLOW_PREFIX)

parse_disallow(line) == strip_key(line, DISALLOW_PREFIX)

\* parse_line, feature crawl-delay on
parse_line(raw) ==
    LET line == trim(strip_comments(raw))
    IN IF slice_panics(line, DISALLOW_PREFIX) THEN Panicked
       ELSE IF parse_disallow(line) # <<>>
            THEN RuleLine("Disallow", parse_disallow(line)[1])
       ELSE IF slice_panics(line, UA_PREFIX) THEN Panicked
       ELSE IF parse_user_agent(line) # <<>>
            THEN UserAgent(to_lowercase(parse_user_agent(line)[1]))
       ELSE IF slice_panics(line, ALLOW_PREFIX) THEN Panicked
       ELSE IF parse_allow(line) # <<>>
            THEN RuleLine("Allow", parse_allow(line)[1])
       ELSE IF slice_panics(line, DELAY_PREFIX) THEN Panicked
       ELSE IF parse_delay(line) # <<>>
            THEN RuleLine("Delay", parse_delay(line)[1])
       ELSE Nothing

\* BTreeMap<String, Rule>: a sequence of rules in ascending order of their
\* key, one rule per key (every entry is stored under its own pattern)
contains_key(dedupe, key) == \E i \in DOMAIN dedupe : dedupe[i].inner = key

RECURSIVE insert(_, _)
insert(dedupe, rule) ==
    IF dedupe = <<>> THEN <<rule>>
    ELSE IF Head(dedupe).inner = rule.inner THEN <<rule>> \o Tail(dedupe)
    ELSE IF BytesLess(rule.inner, Head(dedupe).inner) THEN <<rule>> \o dedupe
    ELSE <<Head(dedupe)>> \o insert(Tail(dedupe), rule)

\* a loop body where a Disallow overwrites the entry of its pattern
DedupeStepOverwriting(dedupe, rule) ==
    insert(dedupe, rule)

\* the body of `for rule in rules` of filter_dupes
DedupeStep(dedupe, rule) ==
    IF rule.kind = "Disallow"
        THEN IF ~contains_key(dedupe, rule.inner) THEN insert(dedupe, rule) ELSE dedupe
        ELSE insert(dedupe, rule)

\* Compiler::filter_dupes
RECURSIVE filter_dupes(_)
filter_dupes(rules) ==
    IF rules = <<>> THEN <<>>
    ELSE DedupeStep(filter_dupes(SubSeq(rules, 1, Len(rules) - 1)), Last(rules))

\* the bytes that may follow the lead byte b of a UTF-8 character, one set per
\* continuation byte (<<>> for an ASCII byte; no entry for a byte that cannot
\* lead)
Continuations(b) ==
    IF b < 128 THEN {<<>>}
    ELSE IF b \in 194..223 THEN {<<128..191>>}
    ELSE IF b = 224 THEN {<<160..191, 128..191>>}
    ELSE IF b \in (225..236) \cup {238, 239} THEN {<<128..191, 128..191>>}
    ELSE IF b = 237 THEN {<<128..159, 128..191>>}
    ELSE IF b = 240 THEN {<<144..191, 128..191, 128..191>>}
    ELSE IF b \in 241..243 THEN {<<128..191, 128..191, 128..191>>}
    ELSE IF b = 244 THEN {<<128..143, 128..191, 128..191>>}
    ELSE {}

\* str::from_utf8(..).is_ok() on the bytes of s from offset i on
RECURSIVE valid_utf8_from(_, _)
valid_utf8_from(s, i) ==
    IF i >= Len(s) THEN TRUE
    ELSE \E c \in Continuations(s[i + 1]) :
            /\ i + 1 + Len(c) <= Len(s)
            /\ \A k \in DOMAIN c : s[i + 1 + k] \in c[k]
            /\ valid_utf8_from(s, i + 1 + Len(c))

\* read_line(&mut buf) returns Ok: the bytes of the line are UTF-8 (it returns
\* Err(InvalidData) otherwise); a line of ASCII bytes is UTF-8
read_line_ok(line) ==
    (\A i \in DOMAIN line : line[i] < 128) \/ valid_utf8_from(line, 0)

\* GroupReader::new; `ended` tells how a call on the reader was cut short:
\* "err" when read_line returned Err (handed on by `?`), "panicked" when
\* parse_line panicked
GroupReader ==
    [parsing_agents |-> TRUE, agents |-> <<>>, rules |-> <<>>, pos |-> 0,
     ended |-> ""]

\* a header loop that passes over a rule line met before any user-agent line
RECURSIVE HeaderLoopPassing(_, _)
HeaderLoopPassing(lines, gr) ==
    IF gr.pos >= Len(lines) THEN gr
    ELSE
        LET line == parse_line(lines[gr.pos + 1])
            read == [gr EXCEPT !.pos = @ + 1]
        IN
        IF line.type = "UserAgent" /\ gr.parsing_agents
            THEN HeaderLoopPassing(lines, [read EXCEPT !.agents = Append(@, line.ua)])
        ELSE IF line.type = "UserAgent"
            THEN HeaderLoopPassing(lines, [read EXCEPT !.agents = <<line.ua>>,
                                                       !.rules = <<>>,
                                                       !.parsing_agents = TRUE])
        ELSE IF line.type = "Rule" /\ gr.parsing_agents /\ gr.agents # <<>>
            THEN [read EXCEPT !.rules = Append(@, line.rule),
                              !.parsing_agents = FALSE]
        ELSE HeaderLoopPassing(lines, read)

\* a header loop where a line that is no directive ends the header gathered
RECURSIVE HeaderLoopCut(_, _)
HeaderLoopCut(lines, gr) ==
    IF gr.pos >= Len(lines) THEN gr
    ELSE
        LET line == parse_line(lines[gr.pos + 1])
            read == [gr EXCEPT !.pos = @ + 1]
        IN
        IF line.type = "UserAgent" /\ gr.parsing_agents
            THEN HeaderLoopCut(lines, [read EXCEPT !.agents = Append(@, line.ua)])
        ELSE IF line.type = "UserAgent"
            THEN HeaderLoopCut(lines, [read EXCEPT !.agents = <<line.ua>>,
                                                   !.rules = <<>>,
                                                   !.parsing_agents = TRUE])
        ELSE IF line.type = "Rule" /\ gr.parsing_agents
            THEN [read EXCEPT !.rules = Append(@, line.rule),
                              !.parsing_agents = FALSE]
        ELSE HeaderLoopCut(lines, [read EXCEPT !.agents = <<>>])

\* the `while read_line != 0` loop of next_header; pos counts the lines read
RECURSIVE HeaderLoop(_, _)
HeaderLoop(lines, gr) ==
    IF gr.pos >= Len(lines) THEN gr
    ELSE IF ~read_line_ok(lines[gr.pos + 1]) THEN [gr EXCEPT !.ended = "err"]
    ELSE
        LET line == parse_line(lines[gr.pos + 1])
            read == [gr EXCEPT !.pos = @ + 1]
        IN
        IF line.type = "Panicked" THEN [read EXCEPT !.ended = "panicked"]
        ELSE IF line.type = "UserAgent" /\ gr.parsing_agents
            THEN HeaderLoop(lines, [read EXCEPT !.agents = Append(@, line.ua)])
        ELSE IF line.type = "UserAgent"
            THEN HeaderLoop(lines, [read EXCEPT !.agents = <<line.ua>>,
                                                !.rules = <<>>,
                                                !.parsing_agents = TRUE])
        ELSE IF line.type = "Rule" /\ gr.parsing_agents
            THEN [read EXCEPT !.rules = Append(@, line.rule),
                              !.parsing_agents = FALSE]
        ELSE HeaderLoop(lines, read)

\* GroupReader::next_header: the reader afterwards and the Option returned
next_header(lines, gr) ==
    LET after == HeaderLoop(lines, gr)
    IN [reader |-> [after EXCEPT !.agents = <<>>],
        agents |-> IF after.agents = <<>> THEN <<>> ELSE <<after.agents>>]

\* a rules loop that a user-agent line does not end
RECURSIVE RulesLoopThrough(_, _)
RulesLoopThrough(lines, gr) ==
    IF gr.pos >= Len(lines) THEN gr
    ELSE
        LET line == parse_line(lines[gr.pos + 1])
            read == [gr EXCEPT !.pos = @ + 1]
        IN
        IF line.type = "Rule"
            THEN RulesLoopThrough(lines, [read EXCEPT !.rules = Append(@, line.rule),
                                                      !.parsing_agents = FALSE])
        ELSE RulesLoopThrough(lines, read)

\* the `while read_line != 0` loop of next_rules
RECURSIVE RulesLoop(_, _)
RulesLoop(lines, gr) ==
    IF gr.pos >= Len(lines) THEN gr
    ELSE IF ~read_line_ok(lines[gr.pos + 1]) THEN [gr EXCEPT !.ended = "err"]
    ELSE
        LET line == parse_line(lines[gr.pos + 1])
            read == [gr EXCEPT !.pos = @ + 1]
        IN
        IF line.type = "Panicked" THEN [read EXCEPT !.ended = "panicked"]
        ELSE IF line.type = "Rule"
            THEN RulesLoop(lines, [read EXCEPT !.rules = Append(@, line.rule),
                                               !.parsing_agents = FALSE])
        ELSE IF line.type = "UserAgent" /\ ~gr.parsing_agents
            THEN [read EXCEPT !.agents = Append(@, line.ua),
                              !.parsing_agents = TRUE]
        ELSE RulesLoop(lines, read)

\* GroupReader::next_rules: the reader afterwards and the rules returned
next_rules(lines, gr) ==
    LET after == RulesLoop(lines, gr)
    IN [reader |-> [after EXCEPT !.rules = <<>>], rules |-> after.rules]

\* the value of a string of decimal digits
RECURSIVE DecimalValue(_)
DecimalValue(digits) ==
    IF digits = <<>> THEN 0
    ELSE 10 * DecimalValue(SubSeq(digits, 1, Len(digits) - 1)) + (Last(digits) - 48)

\* str::parse::<u64>().ok(): an optional `+` and one or more decimal digits
\* (the inputs are short: no value comes near u64::MAX)
parse_u64(s) ==
    LET digits == IF s # <<>> /\ s[1] = 43 THEN Tail(s) ELSE s
    IN IF digits = <<>> \/ \E i \in DOMAIN digits : digits[i] \notin 48..57
        THEN <<>>
        ELSE <<DecimalValue(digits)>>

\* Cylon::compile, the crawl-delay block: the Delay rules that are UTF-8 are
\* parsed, the Options sorted with Some before None and Some ascending, and
\* the first one (None when there is none) becomes Cylon.delay
compile_delay(rules) ==
    LET parsed == {parse_u64(rules[i].inner)[1] :
                        i \in {j \in DOMAIN rules :
                                    /\ rules[j].kind = "Delay"
                                    /\ valid_utf8_from(rules[j].inner, 0)
                                    /\ parse_u64(rules[j].inner) # <<>>}}
    IN IF parsed = {} THEN <<>>
       ELSE <<CHOOSE d \in parsed : \A e \in parsed : d <= e>>

\* str::contains
contains(s, t) ==
    \E i \in 0..(Len(s) - Len(t)) : SubSeq(s, i + 1, i + Len(t)) = t

\* a closure that accepts every token longer than the kept one
IsLongerAgent(a, user_agent, agent) ==
    Len(a) > Len(agent)

\* the closure of agents.iter().find(..) in Compiler::compile
IsMatchingAgent(a, user_agent, agent) ==
    LET matches == a = <<WILDCARD_BYTE>> \/ contains(user_agent, a)
        more_specific == Len(a) > Len(agent)
    IN matches /\ more_specific

\* agents.iter().find(..): the first token the closure accepts
matching_agent(agents, user_agent, agent) ==
    LET hits == {i \in DOMAIN agents : IsMatchingAgent(agents[i], user_agent, agent)}
    IN IF hits = {} THEN <<>>
       ELSE <<agents[CHOOSE i \in hits : \A j \in hits : i <= j]>>

\* Compiler::compile, the `while let Some(agents)` loop from the reader gr on:
\* the rule list it leaves in `rules`
RECURSIVE GroupLoop(_, _, _, _, _)
GroupLoop(lines, gr, user_agent, agent, rules) ==
    LET h == next_header(lines, gr)
    IN IF h.reader.ended # "" \/ h.agents = <<>> THEN rules
       ELSE LET m == matching_agent(h.agents[1], user_agent, agent)
            IN IF m = <<>> THEN GroupLoop(lines, h.reader, user_agent, agent, rules)
               ELSE LET r == next_rules(lines, h.reader)
                    IN IF r.reader.ended # "" THEN rules
                       ELSE GroupLoop(lines, r.reader, user_agent, m[1], r.rules)

\* ------------------------------------------------------------- state

VARIABLES
    pc,            \* where the caller stands
    file,          \* the lines of the robots file, as read_line yields them
    identity,      \* the user agent handed to Compiler::new
    user_agent,    \* Compiler.user_agent
    group_reader,  \* the GroupReader of Compiler::compile
    agents,        \* the header the last next_header() returned, as an Option
    agent,         \* Compiler::compile: the matching token kept so far
    rules,         \* Compiler::compile: the rule list kept so far
    nfa_rules,     \* the Vec<Rule> handed to Cylon::compile (nfa and dfa)
    states,        \* Cylon.states
    delay,         \* Cylon.delay of the nfa matcher, as an Option
    path,          \* the path of the last allow()
    result,        \* what the last allow() returned
    dfa,           \* the dfa::Cylon: its states and transitions
    dfa_result     \* what the last dfa allow() returned, <<>> when it panicked

vars == <<pc, file, identity, user_agent, group_reader, agents, agent, rules,
          nfa_rules, states, delay, path, result, dfa, dfa_result>>

\* ------------------------------------------------------------ inputs

\* the `*` token and two nested names
Tokens == {<<WILDCARD_BYTE>>, <<97, 98>>, <<97, 98, 99>>}

Identities == {<<97, 98, 99>>, <<97, 98>>}

\* longest robots file, in lines
MaxLines == 5

\* "User-agent", "Allow", "Disallow" as a file spells them
UserAgentKey == <<85, 115, 101, 114, 45, 97, 103, 101, 110, 116>>

AllowKey == <<65, 108, 108, 111, 119>>

DisallowKey == <<68, 105, 115, 97, 108, 108, 111, 119>>

\* the line `key: value`
Directive(key, value) == key \o <<58, 32>> \o value

\* header lines, `Allow: /`, `Disallow: /` and a comment line
FileLines ==
    {Directive(UserAgentKey, t) : t \in Tokens}
        \cup {Directive(AllowKey, <<SLASH>>), Directive(DisallowKey, <<SLASH>>)}
        \cup {<<HASH, 32, 97>>}

Files == UNION {[1..n -> FileLines] : n \in 0..MaxLines}

Kinds == {"Allow", "Disallow"}

PatBytes == LetterBytes \cup {WILDCARD_BYTE, EOW_BYTE}

PathBytes == LetterBytes \cup OtherBytes

\* the single-rule lists: every pattern of 1..MaxPatLen bytes
Patterns == Strings(PatBytes, 1, MaxPatLen)

Paths == Strings(PathBytes, 0, MaxPathLen)

\* the two-rule lists: patterns and paths that start with `/`, one byte shorter
RootedPatterns == {<<SLASH>> \o t : t \in Strings(PatBytes, 0, MaxPatLen - 2)}

RootedPaths == {<<>>} \cup {<<SLASH>> \o t : t \in Strings(PathBytes, 0, MaxPathLen - 2)}

\* the rule lines of a selected group
GroupPatterns ==
    {<<SLASH>>, <<SLASH, 97>>, <<SLASH, WILDCARD_BYTE>>,
     <<SLASH, WILDCARD_BYTE, EOW_BYTE>>}

\* most rule lines in a selected group
MaxGroupRules == 3

GroupRules == {Rule(k, q) : k \in Kinds, q \in GroupPatterns}

\* the rule lines of a group where values may be empty: ``, `/`, `/a`, `/*`
EmptyGroupRules ==
    {Rule(k, q) : k \in Kinds,
                  q \in {<<>>, <<SLASH>>, <<SLASH, 97>>, <<SLASH, WILDCARD_BYTE>>}}

\* the paths asked of a group's matcher: empty, or `/` and up to two bytes
GroupPaths == {<<>>} \cup {<<SLASH>> \o t : t \in Strings(PathBytes, 0, 2)}

\* longest robots file whose grouping is followed, in lines
MaxReaderLines == 5

\* `User-agent: *`, `User-agent: ab`, `Disallow: /`, `Allow: /`, a comment
ReaderLines ==
    {Directive(UserAgentKey, <<WILDCARD_BYTE>>), Directive(UserAgentKey, <<97, 98>>),
     Directive(DisallowKey, <<SLASH>>), Directive(AllowKey, <<SLASH>>),
     <<HASH, 32, 97>>}

ReaderFiles == UNION {[1..n -> ReaderLines] : n \in 0..MaxReaderLines}

\* Allow, Disallow and, with the feature crawl-delay, Delay
AllKinds == {"Allow", "Disallow", "Delay"}

\* longest pattern and longest path handed to both matchers
MaxBothPatLen == 3

MaxBothPathLen == 3

BothPatterns == Strings(PatBytes, 0, MaxBothPatLen)

BothRules == {Rule(k, q) : k \in AllKinds, q \in BothPatterns}

\* no rule, one rule, or Allow(/) and one rule
BothRuleLists ==
    {<<>>} \cup {<<r>> : r \in BothRules}
           \cup {<<Rule("Allow", <<SLASH>>), r>> : r \in BothRules}

BothPaths == Strings(PathBytes, 0, MaxBothPathLen)

\* longest run of letters on either side of a `$`, and longest path asked
\* (after its `/`) of the matchers of such patterns
MaxEowLen == 1

MaxEowPathLen == 3

EowLetters == {97, 98}

\* `/v$`: a literal closed by `$`
AnchoredPatterns ==
    {<<SLASH>> \o v \o <<EOW_BYTE>> : v \in Strings(EowLetters, 1, MaxEowLen)}

\* `/u$w`: a `$` with bytes after it
MidWordPatterns ==
    {<<SLASH>> \o u \o <<EOW_BYTE>> \o w :
        u \in Strings(EowLetters, 0, MaxEowLen), w \in Strings(EowLetters, 1, MaxEowLen)}

\* Allow(/), at most one Disallow(/v$), and last a Disallow(/u$w)
EowRuleLists ==
    {<<Rule("Allow", <<SLASH>>), Rule("Disallow", m)>> : m \in MidWordPatterns}
        \cup {<<Rule("Allow", <<SLASH>>), Rule("Disallow", x), Rule("Disallow", m)>> :
                    x \in AnchoredPatterns, m \in MidWordPatterns}

\* `/` and up to MaxEowPathLen bytes, `$` among them
EowPaths ==
    {<<SLASH>> \o t : t \in Strings(EowLetters \cup {EOW_BYTE}, 0, MaxEowPathLen)}

\* longest robots file with crawl-delay lines, in lines
MaxDelayLines == 4

\* "Crawl-delay" as a file spells it
DelayKey == <<67, 114, 97, 119, 108, 45, 100, 101, 108, 97, 121>>

\* `User-agent: *`, `User-agent: ab`, `Crawl-delay: 5`, `Crawl-delay: 10`,
\* `Crawl-delay: x`, `Allow: 5`, `Disallow: /`
DelayLines ==
    {Directive(UserAgentKey, <<WILDCARD_BYTE>>), Directive(UserAgentKey, <<97, 98>>),
     Directive(DelayKey, <<53>>), Directive(DelayKey, <<49, 48>>),
     Directive(DelayKey, <<120>>),
     Directive(AllowKey, <<53>>), Directive(DisallowKey, <<SLASH>>)}

DelayFiles == UNION {[1..n -> DelayLines] : n \in 0..MaxDelayLines}

\* longest robots file whose groups are selected or skipped, in lines
MaxSelectLines == 5

\* `User-agent: ab`, `User-agent: abc`, `Allow: /`, `Disallow: /`
SelectLines ==
    {Directive(UserAgentKey, t) : t \in Identities}
        \cup {Directive(AllowKey, <<SLASH>>), Directive(DisallowKey, <<SLASH>>)}

SelectFiles == UNION {[1..n -> SelectLines] : n \in 0..MaxSelectLines}

\* longest robots file with text outside ASCII, in lines
MaxTextLines == 3

\* `é`, two bytes in UTF-8
EAcute == <<195, 169>>

\* `User-agent: ab`, `Disallow: /é`, the unknown key `x: /`, `ééé`, `aééé`,
\* and a line that is no UTF-8 (the byte 0xFF)
TextLines ==
    {Directive(UserAgentKey, <<97, 98>>),
     Directive(DisallowKey, <<SLASH>> \o EAcute),
     <<120, 58, 32, SLASH>>,
     EAcute \o EAcute \o EAcute,
     <<97>> \o EAcute \o EAcute \o EAcute,
     <<255>>}

TextFiles == UNION {[1..n -> TextLines] : n \in 0..MaxTextLines}

\* the spellings of one line: key, separator, value, tail

\* "User-agent", "USER-AGENT"
UaKeys == {UserAgentKey, <<85, 83, 69, 82, 45, 65, 71, 69, 78, 84>>}

\* "Disallow", "dISALLOW"
DisallowKeys == {DisallowKey, <<100, 73, 83, 65, 76, 76, 79, 87>>}

\* "Allow", "ALLOW"
AllowKeys == {AllowKey, <<65, 76, 76, 79, 87>>}

\* `:` and `: `
TightSeps == {<<58>>, <<58, 32>>}

\* the same with a space before the colon
LooseSeps == {<<32, 58>>, <<32, 58, 32>>}

Seps == TightSeps \cup LooseSeps

\* `#c` and ` # c`
CommentTails == {<<HASH, 99>>, <<32, HASH, 32, 99>>}

Tails == {<<>>} \cup CommentTails

\* `*`, `aB`, `a b`, `c`
LineTokens == {<<WILDCARD_BYTE>>, <<97, 66>>, <<97, 32, 98>>, <<99>>}

\* `Ab`, `a b`, `a`, `cAbc`
LineIdentities == {<<65, 98>>, <<97, 32, 98>>, <<97>>, <<99, 65, 98, 99>>}

\* `/A`, `/a` and the empty value
LineValues == {<<SLASH, 65>>, <<SLASH, 97>>, <<>>}

Line(key, sep, value, tail) == key \o sep \o value \o tail

HeaderLines ==
    {Line(k, s, t, tl) : k \in UaKeys, s \in Seps, t \in LineTokens, tl \in Tails}

RuleLines ==
    {Line(k, s, v, tl) : k \in DisallowKeys \cup AllowKeys, s \in Seps,
                         v \in LineValues, tl \in Tails}

\* a rule line behind a `#`
CommentedOut == {<<HASH>> \o l : l \in {Directive(DisallowKey, <<SLASH, 97>>),
                                         Directive(AllowKey, <<SLASH, 65>>)}}

\* the header, the rule line and the last line of the three-line files
AnyHeader == Directive(UserAgentKey, <<WILDCARD_BYTE>>)

SomeRule == Directive(DisallowKey, <<SLASH, 97>>)

LastLine == Directive(AllowKey, <<SLASH, 98>>)

LastRule == Rule("Allow", <<SLASH, 98>>)

\* `/A`, `/a`, `/aA`, `/Aa` and the empty path
LinePaths ==
    {<<>>, <<SLASH, 65>>, <<SLASH, 97>>, <<SLASH, 97, 65>>, <<SLASH, 65, 97>>}

\* ----------------------------------------------------------- actions

\* Compiler::new
New ==
    /\ pc = "new"
    /\ user_agent' = to_lowercase(identity)
    /\ pc' = "next_header"
    /\ UNCHANGED <<delay, dfa, dfa_result, file, identity, group_reader, agents, agent, rules,
                   nfa_rules, states, path, result>>

\* Compiler::compile, `group_reader.next_header().await?`
NextHeader ==
    /\ pc = "next_header"
    /\ LET r == next_header(file, group_reader)
       IN /\ group_reader' = r.reader
          /\ agents' = IF r.reader.ended # "" THEN <<>> ELSE r.agents
          /\ pc' = IF r.reader.ended # "" THEN r.reader.ended
                   ELSE IF r.agents = <<>> THEN "filter_dupes" ELSE "find"
    /\ UNCHANGED <<delay, dfa, dfa_result, file, identity, user_agent, agent, rules, nfa_rules, states, path, result>>

\* Compiler::compile, `if let Some(matching_agent)`: the group is taken
TakeGroup ==
    /\ pc = "find"
    /\ LET m == matching_agent(agents[1], user_agent, agent)
           r == next_rules(file, group_reader)
       IN /\ m # <<>>
          /\ agent' = m[1]
          /\ rules' = IF r.reader.ended # "" THEN rules ELSE r.rules
          /\ group_reader' = r.reader
          /\ pc' = IF r.reader.ended # "" THEN r.reader.ended ELSE "next_header"
    /\ UNCHANGED <<delay, dfa, dfa_result, file, identity, user_agent, agents, nfa_rules, states, path, result>>

\* Compiler::compile, no token of the header matches: the group is skipped
SkipGroup ==
    /\ pc = "find"
    /\ matching_agent(agents[1], user_agent, agent) = <<>>
    /\ pc' = "next_header"
    /\ UNCHANGED <<delay, dfa, dfa_result, file, identity, user_agent, group_reader, agents, agent, rules,
                   nfa_rules, states, path, result>>

\* Compiler::compile, `Ok(Cylon::compile(Compiler::filter_dupes(&rules)))`
FilterAndCompile ==
    /\ pc = "filter_dupes"
    /\ nfa_rules' = filter_dupes(rules)
    /\ states' = nfa_compile(nfa_rules')
    /\ delay' = compile_delay(nfa_rules')
    /\ pc' = "compiled"
    /\ UNCHANGED <<dfa, dfa_result, file, identity, user_agent, group_reader, agents, agent, rules, path, result>>

\* nfa::Cylon::compile called with a rule list of the caller's own
Compile ==
    /\ pc = "compile"
    /\ states' = nfa_compile(nfa_rules)
    /\ delay' = compile_delay(nfa_rules)
    /\ pc' = "compiled"
    /\ UNCHANGED <<dfa, dfa_result, file, identity, user_agent, group_reader, agents, agent, rules,
                   nfa_rules, path, result>>

\* nfa::Cylon::allow on the compiled matcher, for a path of the set asked
\* (the matcher is immutable: a second query would start from the same states)
Allow(asked) ==
    /\ pc = "compiled"
    /\ \E p \in asked :
        /\ path' = p
        /\ result' = nfa_allow(states, p)
    /\ pc' = "allowed"
    /\ UNCHANGED <<delay, dfa, dfa_result, file, identity, user_agent, group_reader, agents, agent, rules,
                   nfa_rules, states>>

\* dfa::Cylon::compile called with the rule list, by a caller standing at `from`
DfaCompile(from) ==
    /\ pc = from
    /\ dfa' = dfa_compile(nfa_rules)
    /\ pc' = "dfa_compiled"
    /\ UNCHANGED <<file, identity, user_agent, group_reader, agents, agent, rules,
                   nfa_rules, states, delay, path, result, dfa_result>>

\* dfa::Cylon::allow on the compiled matcher, for a path of the set asked
DfaAllow(asked) ==
    /\ pc = "dfa_compiled"
    /\ \E p \in asked :
        /\ path' = p
        /\ dfa_result' = dfa_allow(dfa, p)
    /\ pc' = "dfa_allowed"
    /\ UNCHANGED <<file, identity, user_agent, group_reader, agents, agent, rules,
                   nfa_rules, states, delay, result, dfa>>

\* ---------------------------------------------------- specifications

\* Compiler::new(identity), compile(file), then queries
Init ==
    /\ pc = "new"
    /\ file \in Files
    /\ identity \in Identities
    /\ user_agent = <<>>
    /\ group_reader = GroupReader
    /\ agents = <<>>
    /\ agent = <<>>
    /\ rules = <<>>
    /\ nfa_rules = <<>>
    /\ states = <<>>
    /\ path = <<>>
    /\ result = TRUE
    /\ delay = <<>>
    /\ dfa = [states |-> <<>>, transitions |-> <<>>]
    /\ dfa_result = <<>>

Next ==
    \/ New
    \/ NextHeader
    \/ TakeGroup
    \/ SkipGroup
    \/ FilterAndCompile
    \/ Allow({<<SLASH>>, <<SLASH, 97>>})

Spec == Init /\ [][Next]_vars

\* Compiler::compile from the point where a group's rule lines are selected
InitGroup ==
    /\ pc = "filter_dupes"
    /\ rules \in UNION {[1..n -> GroupRules] : n \in 1..MaxGroupRules}
    /\ file = <<>>
    /\ identity = <<>>
    /\ user_agent = <<>>
    /\ group_reader = GroupReader
    /\ agents = <<>>
    /\ agent = <<>>
    /\ nfa_rules = <<>>
    /\ states = <<>>
    /\ path = <<>>
    /\ result = TRUE
    /\ delay = <<>>
    /\ dfa = [states |-> <<>>, transitions |-> <<>>]
    /\ dfa_result = <<>>

NextGroup == FilterAndCompile \/ Allow(GroupPaths)

SpecGroup == InitGroup /\ [][NextGroup]_vars

\* Compiler::new(identity), compile of a three-line file in which the header
\* or the first rule line is spelled in every way, then queries
InitLines ==
    /\ pc = "new"
    /\ file \in {<<h, SomeRule, LastLine>> : h \in HeaderLines}
                \cup {<<AnyHeader, r, LastLine>> : r \in RuleLines \cup CommentedOut}
    /\ identity \in LineIdentities
    /\ user_agent = <<>>
    /\ group_reader = GroupReader
    /\ agents = <<>>
    /\ agent = <<>>
    /\ rules = <<>>
    /\ nfa_rules = <<>>
    /\ states = <<>>
    /\ path = <<>>
    /\ result = TRUE
    /\ delay = <<>>
    /\ dfa = [states |-> <<>>, transitions |-> <<>>]
    /\ dfa_result = <<>>

NextLines ==
    \/ New
    \/ NextHeader
    \/ TakeGroup
    \/ SkipGroup
    \/ FilterAndCompile
    \/ Allow(LinePaths)

SpecLines == InitLines /\ [][NextLines]_vars

\* Compiler::compile from the point where a group's rule lines are selected,
\* some of them with an empty value
InitEmpty ==
    /\ pc = "filter_dupes"
    /\ rules \in UNION {[1..n -> EmptyGroupRules] : n \in 1..MaxGroupRules}
    /\ file = <<>>
    /\ identity = <<>>
    /\ user_agent = <<>>
    /\ group_reader = GroupReader
    /\ agents = <<>>
    /\ agent = <<>>
    /\ nfa_rules = <<>>
    /\ states = <<>>
    /\ path = <<>>
    /\ result = TRUE
    /\ delay = <<>>
    /\ dfa = [states |-> <<>>, transitions |-> <<>>]
    /\ dfa_result = <<>>

NextEmpty == FilterAndCompile \/ Allow(GroupPaths)

SpecEmpty == InitEmpty /\ [][NextEmpty]_vars

\* Compiler::new("ab"), compile of a file of few kinds of lines, then queries
InitReader ==
    /\ pc = "new"
    /\ file \in ReaderFiles
    /\ identity = <<97, 98>>
    /\ user_agent = <<>>
    /\ group_reader = GroupReader
    /\ agents = <<>>
    /\ agent = <<>>
    /\ rules = <<>>
    /\ nfa_rules = <<>>
    /\ states = <<>>
    /\ path = <<>>
    /\ result = TRUE
    /\ delay = <<>>
    /\ dfa = [states |-> <<>>, transitions |-> <<>>]
    /\ dfa_result = <<>>

NextReader ==
    \/ New
    \/ NextHeader
    \/ TakeGroup
    \/ SkipGroup
    \/ FilterAndCompile
    \/ Allow({<<SLASH>>})

SpecReader == InitReader /\ [][NextReader]_vars

\* nfa::Cylon::compile(<<r1, r2>>), then queries
InitText ==
    /\ pc = "new"
    /\ file \in TextFiles
    /\ identity = <<97, 98>>
    /\ user_agent = <<>>
    /\ group_reader = GroupReader
    /\ agents = <<>>
    /\ agent = <<>>
    /\ rules = <<>>
    /\ nfa_rules = <<>>
    /\ states = <<>>
    /\ path = <<>>
    /\ result = TRUE
    /\ delay = <<>>
    /\ dfa = [states |-> <<>>, transitions |-> <<>>]
    /\ dfa_result = <<>>

NextText ==
    \/ New
    \/ NextHeader
    \/ TakeGroup
    \/ SkipGroup
    \/ FilterAndCompile
    \/ Allow({<<SLASH>>, <<SLASH>> \o EAcute})

SpecText == InitText /\ [][NextText]_vars

\* a caller that compiles one rule list into both matchers and asks both the
\* same path
InitBoth ==
    /\ pc = "compile"
    /\ file = <<>>
    /\ identity = <<>>
    /\ user_agent = <<>>
    /\ group_reader = GroupReader
    /\ agents = <<>>
    /\ agent = <<>>
    /\ rules = <<>>
    /\ nfa_rules \in BothRuleLists
    /\ states = <<>>
    /\ path = <<>>
    /\ result = TRUE
    /\ delay = <<>>
    /\ dfa = [states |-> <<>>, transitions |-> <<>>]
    /\ dfa_result = <<>>

NextBoth ==
    \/ Compile
    \/ Allow(BothPaths)
    \/ DfaCompile("allowed")
    \/ DfaAllow({path})

SpecBoth == InitBoth /\ [][NextBoth]_vars

\* both matchers compiled from a rule list with a mid-word `$`
InitEow ==
    /\ pc = "compile"
    /\ file = <<>>
    /\ identity = <<>>
    /\ user_agent = <<>>
    /\ group_reader = GroupReader
    /\ agents = <<>>
    /\ agent = <<>>
    /\ rules = <<>>
    /\ nfa_rules \in EowRuleLists
    /\ states = <<>>
    /\ path = <<>>
    /\ result = TRUE
    /\ delay = <<>>
    /\ dfa = [states |-> <<>>, transitions |-> <<>>]
    /\ dfa_result = <<>>

NextEow ==
    \/ Compile
    \/ Allow(EowPaths)
    \/ DfaCompile("allowed")
    \/ DfaAllow({path})

SpecEow == InitEow /\ [][NextEow]_vars

InitDelay ==
    /\ pc = "new"
    /\ file \in DelayFiles
    /\ identity = <<97, 98>>
    /\ user_agent = <<>>
    /\ group_reader = GroupReader
    /\ agents = <<>>
    /\ agent = <<>>
    /\ rules = <<>>
    /\ nfa_rules = <<>>
    /\ states = <<>>
    /\ path = <<>>
    /\ result = TRUE
    /\ delay = <<>>
    /\ dfa = [states |-> <<>>, transitions |-> <<>>]
    /\ dfa_result = <<>>

NextDelay ==
    \/ New
    \/ NextHeader
    \/ TakeGroup
    \/ SkipGroup
    \/ FilterAndCompile
    \/ Allow({<<SLASH>>})

SpecDelay == InitDelay /\ [][NextDelay]_vars

InitSelect ==
    /\ pc = "new"
    /\ file \in SelectFiles
    /\ identity \in Identities
    /\ user_agent = <<>>
    /\ group_reader = GroupReader
    /\ agents = <<>>
    /\ agent = <<>>
    /\ rules = <<>>
    /\ nfa_rules = <<>>
    /\ states = <<>>
    /\ path = <<>>
    /\ result = TRUE
    /\ delay = <<>>
    /\ dfa = [states |-> <<>>, transitions |-> <<>>]
    /\ dfa_result = <<>>

NextSelect ==
    \/ New
    \/ NextHeader
    \/ TakeGroup
    \/ SkipGroup
    \/ FilterAndCompile
    \/ Allow({<<SLASH>>})

SpecSelect == InitSelect /\ [][NextSelect]_vars

InitNfa ==
    /\ pc = "compile"
    /\ nfa_rules \in {<<Rule(k1, q1), Rule(k2, q2)>> :
                        k1 \in Kinds, k2 \in Kinds,
                        q1 \in RootedPatterns, q2 \in RootedPatterns}
    /\ file = <<>>
    /\ identity = <<>>
    /\ user_agent = <<>>
    /\ group_reader = GroupReader
    /\ agents = <<>>
    /\ agent = <<>>
    /\ rules = <<>>
    /\ states = <<>>
    /\ path = <<>>
    /\ result = TRUE
    /\ delay = <<>>
    /\ dfa = [states |-> <<>>, transitions |-> <<>>]
    /\ dfa_result = <<>>

NextNfa == Compile \/ Allow(RootedPaths)

SpecNfa == InitNfa /\ [][NextNfa]_vars

\* nfa::Cylon::compile(<<r>>), then queries
InitOne ==
    /\ pc = "compile"
    /\ nfa_rules \in {<<Rule(k, q)>> : k \in Kinds, q \in Patterns}
    /\ file = <<>>
    /\ identity = <<>>
    /\ user_agent = <<>>
    /\ group_reader = GroupReader
    /\ agents = <<>>
    /\ agent = <<>>
    /\ rules = <<>>
    /\ states = <<>>
    /\ path = <<>>
    /\ result = TRUE
    /\ delay = <<>>
    /\ dfa = [states |-> <<>>, transitions |-> <<>>]
    /\ dfa_result = <<>>

NextOne == Compile \/ Allow(Paths)

SpecOne == InitOne /\ [][NextOne]_vars

\* ------------------------------------------- what a pattern matches

\* only `*` and a trailing `$` are metacharacters
WellFormed(q) == \A i \in 1..(Len(q) - 1) : q[i] # EOW_BYTE

Anchored(q) == q # <<>> /\ Last(q) = EOW_BYTE

\* the pattern without its trailing `$`
Unanchored(q) == IF Anchored(q) THEN SubSeq(q, 1, Len(q) - 1) ELSE q

Literal(q) == \A i \in DOMAIN q : q[i] \notin {WILDCARD_BYTE, EOW_BYTE}

\* body[i..] matches p[j..]: a literal byte matches itself, `*` any run of
\* bytes; at the end of body an anchored pattern needs the end of p
RECURSIVE MatchFrom(_, _, _, _, _)
MatchFrom(body, anchored, p, i, j) ==
    IF i > Len(body) THEN (~anchored \/ j > Len(p))
    ELSE IF body[i] = WILDCARD_BYTE
        THEN \E k \in j..(Len(p) + 1) : MatchFrom(body, anchored, p, i + 1, k)
    ELSE j <= Len(p) /\ p[j] = body[i] /\ MatchFrom(body, anchored, p, i + 1, j + 1)

\* the well-formed pattern q matches the path p
Matches(q, p) == MatchFrom(Unanchored(q), Anchored(q), p, 1, 1)

Max(S) == CHOOSE m \in S : \A n \in S : n <= m

\* the unanchored lengths of the patterns of one kind that match p
MatchingLengths(rs, kind, p) ==
    {Len(Unanchored(rs[i].inner)) :
        i \in {j \in DOMAIN rs : rs[j].kind = kind /\ Matches(rs[j].inner, p)}}

\* the lengths of the same patterns with their `$` counted
MatchingRawLengths(rs, kind, p) ==
    {Len(rs[i].inner) :
        i \in {j \in DOMAIN rs : rs[j].kind = kind /\ Matches(rs[j].inner, p)}}

AllWellFormed(rs) == \A i \in DOMAIN rs : WellFormed(rs[i].inner)

DistinctPatterns(rs) ==
    \A i, j \in DOMAIN rs : rs[i].inner = rs[j].inner => i = j

\* a non-empty path has been asked of the matcher compiled from nfa_rules
Asked == pc = "allowed" /\ path # <<>>

\* -------------------------------------------------------------- claims

\* C1: longer pattern wins.  For a matcher compiled from well-formed rules
\* and a (non-empty) path that an Allow pattern and a Disallow pattern both
\* match, allow returns the verdict of the kind whose longest matching
\* pattern has the greater unanchored length.
C1_LongerPatternWins ==
    (Asked /\ AllWellFormed(nfa_rules)) =>
        LET a == MatchingLengths(nfa_rules, "Allow", path)
            d == MatchingLengths(nfa_rules, "Disallow", path)
        IN (a # {} /\ d # {} /\ Max(a) # Max(d)) => (result = (Max(a) > Max(d)))

\* C2: prefix semantics.  With Disallow(s) for a literal s in the compiled
\* list, a (non-empty) path that has s as a prefix is denied unless an Allow
\* pattern at least as long as s matches it too.
C2_LiteralDisallowDenies ==
    (Asked /\ AllWellFormed(nfa_rules)) =>
        \A i \in DOMAIN nfa_rules :
            LET s == nfa_rules[i].inner
            IN (/\ nfa_rules[i].kind = "Disallow"
                /\ Literal(s)
                /\ starts_with(path, s)
                /\ \A n \in MatchingLengths(nfa_rules, "Allow", path) : n < Len(s))
               => (result = FALSE)

\* C3: a (non-empty) path that no pattern of the compiled list matches is
\* allowed.
C3_UnmatchedPathAllowed ==
    (Asked /\ AllWellFormed(nfa_rules)) =>
        ((\A i \in DOMAIN nfa_rules : ~Matches(nfa_rules[i].inner, path))
            => (result = TRUE))

\* C4: tie-break.  When the longest Allow pattern and the longest Disallow
\* pattern that match a (non-empty) path have the same length (with or
\* without counting a trailing `$`), the path is allowed; the patterns of the
\* list are distinct.
C4_TieAllows ==
    (Asked /\ AllWellFormed(nfa_rules) /\ DistinctPatterns(nfa_rules)) =>
        LET a == MatchingLengths(nfa_rules, "Allow", path)
            d == MatchingLengths(nfa_rules, "Disallow", path)
            ra == MatchingRawLengths(nfa_rules, "Allow", path)
            rd == MatchingRawLengths(nfa_rules, "Disallow", path)
        IN (a # {} /\ d # {} /\ Max(a) = Max(d) /\ Max(ra) = Max(rd))
            => (result = TRUE)

\* the rules of rs whose pattern is q
RulesFor(rs, q) == {i \in DOMAIN rs : rs[i].inner = q}

\* q matches p and every other pattern of rs that matches p is shorter
LongestMatch(rs, q, p) ==
    /\ Matches(q, p)
    /\ \A i \in DOMAIN rs :
        (rs[i].inner # q /\ Matches(rs[i].inner, p))
            => Len(rs[i].inner) < Len(Unanchored(q))

\* C5: identical patterns.  When the selected group holds both Allow q and
\* Disallow q, filter_dupes keeps exactly one rule for q, an Allow, and the
\* compiled matcher allows every (non-empty) path whose longest matching
\* pattern is q.
C5_SamePatternAllowWins ==
    (pc = "allowed" /\ path # <<>>) =>
        \A q \in {rules[i].inner : i \in DOMAIN rules} :
            (/\ \E i \in RulesFor(rules, q) : rules[i].kind = "Allow"
             /\ \E i \in RulesFor(rules, q) : rules[i].kind = "Disallow")
            => /\ Cardinality(RulesFor(nfa_rules, q)) = 1
               /\ \A i \in RulesFor(nfa_rules, q) : nfa_rules[i].kind = "Allow"
               /\ LongestMatch(rules, q, path) => (result = TRUE)

\* the part of C5 that is filter_dupes' own
C5_FilterKeepsAllow ==
    (pc = "allowed") =>
        \A q \in {rules[i].inner : i \in DOMAIN rules} :
            (/\ \E i \in RulesFor(rules, q) : rules[i].kind = "Allow"
             /\ \E i \in RulesFor(rules, q) : rules[i].kind = "Disallow")
            => /\ Cardinality(RulesFor(nfa_rules, q)) = 1
               /\ \A i \in RulesFor(nfa_rules, q) : nfa_rules[i].kind = "Allow"

\* the orders in which n lines can stand
Orders(n) == {f \in [1..n -> 1..n] : \A i, j \in 1..n : f[i] = f[j] => i = j}

\* the permutations of the lines of a group
Reorderings(rs) == {[i \in 1..Len(rs) |-> rs[f[i]]] : f \in Orders(Len(rs))}

\* C6: rule order independence.  Whatever the order of the Allow/Disallow
\* lines of the selected group, the matcher Compiler::compile builds gives
\* the same answer to the path asked.
C6_OrderIndependent ==
    (pc = "allowed") =>
        \A filtered \in {filter_dupes(perm) : perm \in Reorderings(rules)} :
            nfa_allow(nfa_compile(filtered), path) = result

\* a group where Allow q stands before Disallow q, with a third line, asked a
\* path that q matches
C6_Witness ==
    /\ pc = "allowed"
    /\ Len(rules) = 3
    /\ \E i, j \in DOMAIN rules :
        /\ i < j
        /\ rules[i].kind = "Allow" /\ rules[j].kind = "Disallow"
        /\ rules[i].inner = rules[j].inner
        /\ Matches(rules[i].inner, path)
    /\ \E perm \in Reorderings(rules) : perm # rules
    /\ path # <<>>
    /\ result = TRUE

\* the single rule compiled, when it is a Disallow
OneDisallow == Len(nfa_rules) = 1 /\ nfa_rules[1].kind = "Disallow"

\* the pattern of the single rule
Pattern == nfa_rules[1].inner

\* C7 as stated: for the single rule Disallow(s$), s literal, allow(p) is false
\* exactly for p = s, for every path p, the empty one included.
C7_AnchoredLiteralEveryPath ==
    (pc = "allowed" /\ OneDisallow /\ Anchored(Pattern)
        /\ Literal(Unanchored(Pattern)))
        => ((result = FALSE) <=> (path = Unanchored(Pattern)))

\* C7: anchored semantics.  For the single rule Disallow(s$), s literal, and
\* every non-empty path p (the empty path is asked as `/`), allow(p) is false
\* exactly for p = s: true for every proper prefix and every proper
\* extension of s.
C7_AnchoredLiteral ==
    (Asked /\ OneDisallow /\ Anchored(Pattern) /\ Literal(Unanchored(Pattern)))
        => ((result = FALSE) <=> (path = Unanchored(Pattern)))

\* Disallow(s$) with s of two bytes or more, asked s itself and denying it
C7_Witness ==
    /\ Asked /\ OneDisallow /\ Anchored(Pattern) /\ Literal(Unanchored(Pattern))
    /\ Len(Pattern) >= 3
    /\ path = Unanchored(Pattern)
    /\ result = FALSE

\* Disallow(s$) asked a proper extension of s and allowing it
C7_WitnessExtension ==
    /\ Asked /\ OneDisallow /\ Anchored(Pattern) /\ Literal(Unanchored(Pattern))
    /\ Len(Pattern) >= 3
    /\ starts_with(path, Unanchored(Pattern)) /\ path # Unanchored(Pattern)
    /\ result = TRUE

\* the positions of the `*`s of q
Stars(q) == {i \in DOMAIN q : q[i] = WILDCARD_BYTE}

\* q is u*v with u and v literal, but for a trailing `$` of v
OneStar(q) ==
    /\ WellFormed(q)
    /\ Cardinality(Stars(Unanchored(q))) = 1

\* the u and the v of u*v, v without its `$`
Before(q) == SubSeq(q, 1, (CHOOSE i \in Stars(q) : TRUE) - 1)

After(q) ==
    SubSeq(Unanchored(q), (CHOOSE i \in Stars(q) : TRUE) + 1, Len(Unanchored(q)))

ends_with(s, suffix) ==
    /\ Len(suffix) <= Len(s)
    /\ SubSeq(s, Len(s) - Len(suffix) + 1, Len(s)) = suffix

\* p = x . y with x starting with u, and y ending with v (v not anchored) or
\* y = v (v anchored)
SplitMatches(q, p) ==
    \E k \in 0..Len(p) :
        LET x == SubSeq(p, 1, k)
            y == SubSeq(p, k + 1, Len(p))
        IN /\ starts_with(x, Before(q))
           /\ IF Anchored(q) THEN y = After(q) ELSE ends_with(y, After(q))

\* C8: wildcard semantics, anchored tail.  The matcher compiled from the
\* single rule Disallow(u*v$) denies exactly the (non-empty) paths p = x . y
\* with x starting with u and y = v.
C8_AnchoredWildcard ==
    (Asked /\ OneDisallow /\ OneStar(Pattern) /\ Anchored(Pattern))
        => ((result = FALSE) <=> SplitMatches(Pattern, path))

\* v occurs in p after u
OccursAfter(q, p) ==
    /\ starts_with(p, Before(q))
    /\ \E i \in Len(Before(q))..(Len(p) - Len(After(q))) :
        SubSeq(p, i + 1, i + Len(After(q))) = After(q)

\* C9 as stated: for the single unanchored rule Disallow(u*v), every path p,
\* the empty one included, is matched (denied) iff p starts with u and v
\* occurs in p after u.
C9_WildcardRunEveryPath ==
    (pc = "allowed" /\ OneDisallow /\ OneStar(Pattern) /\ ~Anchored(Pattern))
        => ((result = FALSE) <=> OccursAfter(Pattern, path))

\* C9: `*` matches a run of zero or more bytes without losing later matches.
\* For the single unanchored rule Disallow(u*v) and every non-empty path p
\* (the empty path is asked as `/`), p is matched (denied) iff p starts with u
\* and v occurs in p after u, any bytes between and after.
C9_WildcardRun ==
    (Asked /\ OneDisallow /\ OneStar(Pattern) /\ ~Anchored(Pattern))
        => ((result = FALSE) <=> OccursAfter(Pattern, path))

\* a path where v first fails part-way and then occurs later, and is denied
C9_Witness ==
    /\ Asked /\ OneDisallow /\ OneStar(Pattern) /\ ~Anchored(Pattern)
    /\ Len(After(Pattern)) >= 2
    /\ LET u == Before(Pattern)
           v == After(Pattern)
       IN /\ Len(path) > Len(u) + Len(v)
          /\ path[Len(u) + 1] = v[1]
          /\ SubSeq(path, Len(u) + 1, Len(u) + Len(v)) # v
          /\ OccursAfter(Pattern, path)
    /\ result = FALSE

\* ------------------------------------------- what a robots file holds

\* the lines of the file, each as ParsedLine classifies it
Classified(f) == [i \in DOMAIN f |-> parse_line(f[i])]

\* the file is a run of groups: header lines then rule lines, nothing else
WellGrouped(f) ==
    /\ f # <<>>
    /\ \A i \in DOMAIN f : f[i].type \in {"UserAgent", "Rule"}
    /\ f[1].type = "UserAgent"
    /\ Last(f).type = "Rule"

\* the lines where a header begins
HeaderStarts(f) ==
    {i \in DOMAIN f : f[i].type = "UserAgent"
                        /\ (i = 1 \/ f[i - 1].type # "UserAgent")}

\* the last line of the group that begins at line i
GroupEnd(f, i) ==
    Max({j \in i..Len(f) : \A k \in (i + 1)..j : k \notin HeaderStarts(f)})

\* the tokens of the header of the group that begins at line i
GroupTokens(f, i) ==
    {f[k].ua : k \in {j \in i..GroupEnd(f, i) : f[j].type = "UserAgent"}}

IsRuleLine(line) == line.type = "Rule"

\* the rule list of the group that begins at line i
RulesOfGroup(f, i) ==
    LET lines == SelectSeq(SubSeq(f, i, GroupEnd(f, i)), IsRuleLine)
    IN [k \in DOMAIN lines |-> lines[k].rule]

\* the length of the longest token of the group that matches the identity,
\* 0 when none does
Specificity(f, i, ident) ==
    Max({0} \cup {Len(t) : t \in {u \in GroupTokens(f, i) :
                        u = <<WILDCARD_BYTE>> \/ contains(ident, u)}})

\* the rule list of the most specific matching group, the earliest of equals
MostSpecificRules(f, ident) ==
    LET best == Max({0} \cup {Specificity(f, i, ident) : i \in HeaderStarts(f)})
        hits == {i \in HeaderStarts(f) : Specificity(f, i, ident) = best}
    IN IF best = 0 THEN <<>>
       ELSE RulesOfGroup(f, CHOOSE i \in hits : \A j \in hits : i <= j)

\* C10: group selection.  When the groups of the file have all been read,
\* the rule list Compiler::compile keeps is that of the group whose header
\* holds the longest token matching the identity, over all tokens of every
\* header, the earliest group among equals; empty when no group matches.
C10_MostSpecificGroup ==
    (pc = "filter_dupes" /\ WellGrouped(Classified(file)))
        => (rules = MostSpecificRules(Classified(file), user_agent))

\* ------------------------------------------- what a line says

\* the same byte, or the same letter in the other case
SameLetter(x, y) ==
    \/ x = y
    \/ x >= 65 /\ x <= 90 /\ y = x + 32
    \/ y >= 65 /\ y <= 90 /\ x = y + 32

SameIgnoringCase(a, b) ==
    Len(a) = Len(b) /\ \A i \in DOMAIN a : SameLetter(a[i], b[i])

\* the token is `*` or occurs in the identity, letter case apart
TokenMatches(tok, ident) ==
    \/ tok = <<WILDCARD_BYTE>>
    \/ \E i \in 0..(Len(ident) - Len(tok)) :
        SameIgnoringCase(SubSeq(ident, i + 1, i + Len(tok)), tok)

\* C11: a user-agent token matches the identity iff, letter case apart, it is
\* `*` or a substring of the identity.  In a file of one group whose header is
\* a single user-agent line (key in any case, comment or not behind it, no
\* space before the colon), the group is selected iff its token matches.
C11_TokenMatchesIgnoringCase ==
    (pc = "filter_dupes") =>
        \A k \in UaKeys, sep \in TightSeps, tok \in LineTokens, tl \in Tails :
            (file = <<Line(k, sep, tok, tl), SomeRule, LastLine>>)
                => ((rules # <<>>) <=> TokenMatches(tok, identity))

\* the token `aB` has selected the group for an identity that holds `Ab`
C11_Witness ==
    /\ pc = "filter_dupes"
    /\ \E k \in UaKeys, sep \in TightSeps, tl \in Tails :
        file = <<Line(k, sep, <<97, 66>>, tl), SomeRule, LastLine>>
    /\ identity = <<99, 65, 98, 99>>
    /\ rules = <<Rule("Disallow", <<SLASH, 97>>), LastRule>>

\* the token `a b` has not selected the group for the identity `a`
C11_WitnessNoMatch ==
    /\ pc = "filter_dupes"
    /\ \E k \in UaKeys, sep \in TightSeps, tl \in Tails :
        file = <<Line(k, sep, <<97, 32, 98>>, tl), SomeRule, LastLine>>
    /\ identity = <<97>>
    /\ rules = <<>>

\* line i of the classified file f is a user-agent line of a group: a rule
\* line follows it with nothing but user-agent and ignored lines between
InGroup(f, i) ==
    /\ f[i].type = "UserAgent"
    /\ \E j \in (i + 1)..Len(f) :
        /\ f[j].type = "Rule"
        /\ \A k \in (i + 1)..(j - 1) : f[k].type # "Rule"

\* no header of a group of the file holds a token that matches the identity
NoGroupMatches ==
    LET f == Classified(file)
    IN \A i \in DOMAIN f : InGroup(f, i) => ~TokenMatches(f[i].ua, identity)

\* C12: no group implies allow-all.  When no group's header holds a token
\* matching the identity, the rule list compiled is empty and the matcher
\* allows every path.
C12_NoGroupAllowsAll ==
    (pc = "compiled" /\ NoGroupMatches) =>
        /\ nfa_rules = <<>>
        /\ \A p \in GroupPaths : nfa_allow(states, p) = TRUE

\* a file with a group of rules for another crawler has been compiled
C12_Witness ==
    /\ pc = "compiled"
    /\ NoGroupMatches
    /\ \E i \in DOMAIN file : InGroup(Classified(file), i)
    /\ \E i \in DOMAIN file : Classified(file)[i] = RuleLine("Disallow", <<SLASH>>)
    /\ nfa_rules = <<>>

\* C13: empty path.  For every matcher Compiler::compile builds, allow("")
\* returns what allow("/") returns.
C13_EmptyPathIsRoot ==
    (pc = "allowed" /\ path = <<>>) => (result = nfa_allow(states, <<SLASH>>))

\* the empty path asked of a matcher that denies `/`, and denied
C13_Witness ==
    /\ pc = "allowed"
    /\ path = <<>>
    /\ nfa_rules # <<>>
    /\ result = FALSE
    /\ nfa_allow(states, <<SLASH>>) = FALSE

\* the rule kind a key spells
KindOf(k) == IF k \in DisallowKeys THEN "Disallow" ELSE "Allow"

\* C14: directive keys are recognized in any letter case and rule values are
\* kept byte-exact.  A rule line whose key is spelled in either case (no
\* space before the colon) yields the rule of that kind with the value as
\* written, and a Disallow of `/A` or `/a` denies exactly the (non-empty)
\* paths that start with those very bytes.
C14_KeysAnyCaseValuesExact ==
    \A k \in DisallowKeys \cup AllowKeys, sep \in TightSeps,
       v \in LineValues, tl \in Tails :
        (file = <<AnyHeader, Line(k, sep, v, tl), LastLine>>) =>
            /\ (pc = "filter_dupes") => (rules = <<Rule(KindOf(k), v), LastRule>>)
            /\ (pc = "allowed" /\ path # <<>> /\ k \in DisallowKeys /\ v # <<>>)
                => (result = ~starts_with(path, v))

\* `dISALLOW: /A` has been compiled and asked `/a`: allowed, while `/A` is denied
C14_Witness ==
    /\ pc = "allowed"
    /\ \E sep \in TightSeps, tl \in Tails :
        file = <<AnyHeader,
                 Line(<<100, 73, 83, 65, 76, 76, 79, 87>>, sep, <<SLASH, 65>>, tl),
                 LastLine>>
    /\ path = <<SLASH, 97>>
    /\ result = TRUE
    /\ nfa_allow(states, <<SLASH, 65>>) = FALSE

\* C15: a directive line is recognized with whitespace on either side of the
\* colon.  A rule line or a header line spelled with any separator, a space
\* before the colon included, is classified as the same line spelled `key:`.
C15_SpaceAroundColon ==
    (pc = "filter_dupes") =>
        /\ \A k \in DisallowKeys \cup AllowKeys, sep \in Seps,
              v \in LineValues, tl \in Tails :
            (file = <<AnyHeader, Line(k, sep, v, tl), LastLine>>)
                => (rules = <<Rule(KindOf(k), v), LastRule>>)
        /\ \A k \in UaKeys, sep \in Seps, tok \in LineTokens, tl \in Tails :
            (file = <<Line(k, sep, tok, tl), SomeRule, LastLine>>)
                => ((rules # <<>>) <=> TokenMatches(tok, identity))

\* C16: comments.  What follows the first `#` of a line is dropped and the
\* rest trimmed: a rule line with a comment behind its value yields the rule
\* with the value before the `#`, and a rule line behind a `#` is ignored.
C16_CommentsDropped ==
    (pc = "filter_dupes") =>
        /\ \A k \in DisallowKeys \cup AllowKeys, sep \in TightSeps,
              v \in LineValues, tl \in CommentTails :
            (file = <<AnyHeader, Line(k, sep, v, tl), LastLine>>)
                => (rules = <<Rule(KindOf(k), v), LastRule>>)
        /\ \A l \in CommentedOut :
            (file = <<AnyHeader, l, LastLine>>) => (rules = <<LastRule>>)

\* `Disallow:/a#c` has been read as Disallow(/a)
C16_Witness ==
    /\ pc = "filter_dupes"
    /\ file = <<AnyHeader, Line(DisallowKey, <<58>>, <<SLASH, 97>>, <<HASH, 99>>),
                LastLine>>
    /\ rules = <<Rule("Disallow", <<SLASH, 97>>), LastRule>>

\* `#Disallow: /a` has been ignored
C16_WitnessCommentedOut ==
    /\ pc = "filter_dupes"
    /\ file = <<AnyHeader, <<HASH>> \o Directive(DisallowKey, <<SLASH, 97>>), LastLine>>
    /\ rules = <<LastRule>>

HasValue(rule) == rule.inner # <<>>

\* C17: a rule line with an empty value never fires.  The matcher compiled
\* from a group answers the path asked as the matcher compiled from the same
\* group without its empty-valued rule lines.
C17_EmptyValueNeverFires ==
    (pc = "allowed") =>
        (result = nfa_allow(nfa_compile(filter_dupes(SelectSeq(rules, HasValue))),
                            path))

\* a group with `Disallow:` and `Allow: /a` has been asked `/a`, and allows it
C17_Witness ==
    /\ pc = "allowed"
    /\ \E i \in DOMAIN rules : rules[i] = Rule("Disallow", <<>>)
    /\ \E i \in DOMAIN rules : rules[i] = Rule("Allow", <<SLASH, 97>>)
    /\ path = <<SLASH, 97>>
    /\ result = TRUE

\* a group of `Disallow:` alone allows `/`
C17_WitnessAlone ==
    /\ pc = "allowed"
    /\ rules = <<Rule("Disallow", <<>>)>>
    /\ path = <<SLASH>>
    /\ result = TRUE

\* ------------------------------------------- how lines group

\* the reader stands behind line pos of the classified file f; the last line
\* a header read up to there can hold: the line before a rule just read, or pos
HeaderLast(f, pos) ==
    IF pos >= 1 /\ f[pos].type = "Rule" THEN pos - 1 ELSE pos

\* the first line of that header: the line after the last rule line before it
HeaderFirst(f, pos) ==
    Max({0} \cup {j \in 1..HeaderLast(f, pos) : f[j].type = "Rule"}) + 1

IsUserAgentLine(line) == line.type = "UserAgent"

\* the tokens of the user-agent lines since the last rule line, in order
HeaderRead(f, pos) ==
    LET lines == SelectSeq(SubSeq(f, HeaderFirst(f, pos), HeaderLast(f, pos)),
                           IsUserAgentLine)
    IN [k \in DOMAIN lines |-> lines[k].ua]

\* the rule lines from line pos up to the next user-agent line, in order
RulesRead(f, pos) ==
    IF pos = 0 \/ f[pos].type # "Rule" THEN <<>>
    ELSE LET stop == {j \in pos..Len(f) : f[j].type = "UserAgent"}
             last == IF stop = {} THEN Len(f)
                     ELSE (CHOOSE j \in stop : \A k \in stop : j <= k) - 1
             lines == SelectSeq(SubSeq(f, pos, last), IsRuleLine)
         IN [k \in DOMAIN lines |-> lines[k].rule]

\* C18: header clustering.  The header next_header returns holds the tokens
\* of all the user-agent lines since the last rule line, ignored lines between
\* them notwithstanding, and the rules read for it are the rule lines up to
\* the next user-agent line.
C18_HeaderClusters ==
    (pc = "find") =>
        /\ agents = <<HeaderRead(Classified(file), group_reader.pos)>>
        /\ next_rules(file, group_reader).rules
                = RulesRead(Classified(file), group_reader.pos)

\* a header of two tokens with a comment line between its two lines, and a
\* rule behind it
C18_Witness ==
    /\ pc = "find"
    /\ Len(agents[1]) = 2
    /\ \E i \in DOMAIN file :
        /\ i + 3 <= Len(file)
        /\ Classified(file)[i].type = "UserAgent"
        /\ Classified(file)[i + 1].type = "Nothing"
        /\ Classified(file)[i + 2].type = "UserAgent"
        /\ Classified(file)[i + 3].type = "Rule"
        /\ group_reader.pos = i + 3
    /\ next_rules(file, group_reader).rules # <<>>

\* C19: at the end of input a pending group is emitted iff it holds a rule.
\* Every header next_header returns is followed by a rule line, the first of
\* a rule list that is not empty, so a header that no rule follows is never
\* offered for selection.
C19_TrailingHeaderNotEmitted ==
    (pc = "find") =>
        /\ group_reader.pos >= 1
        /\ Classified(file)[group_reader.pos].type = "Rule"
        /\ next_rules(file, group_reader).rules # <<>>

\* line i of the classified file f is a rule line before the first
\* user-agent line
LeadingRule(f, i) ==
    /\ f[i].type = "Rule"
    /\ \A j \in 1..(i - 1) : f[j].type # "UserAgent"

\* the file without its line i
Without(f, i) == SubSeq(f, 1, i - 1) \o SubSeq(f, i + 1, Len(f))

\* C20 as stated: a rule line before the first user-agent line is discarded
\* and the groups after it are read and selected as if the line were absent.
C20_LeadingRuleDiscarded ==
    (pc = "filter_dupes") =>
        \A i \in DOMAIN file :
            LeadingRule(Classified(file), i)
                => (rules = GroupLoop(Without(file, i), GroupReader, user_agent,
                                      <<>>, <<>>))

\* C20: a rule line before the first user-agent line ends the reading of the
\* file: it is in no rule list, no group after it is read or selected, the
\* rule list compiled is empty and every path asked is allowed.
C20_LeadingRuleEndsReading ==
    (\E i \in DOMAIN file : LeadingRule(Classified(file), i)) =>
        /\ pc # "find"
        /\ agent = <<>>
        /\ rules = <<>>
        /\ nfa_rules = <<>>
        /\ result = TRUE

\* `Disallow: /` stands before a group for every crawler that disallows `/`,
\* and `/` has been asked and allowed
C20_Witness ==
    /\ pc = "allowed"
    /\ Len(file) >= 3
    /\ LeadingRule(Classified(file), 1)
    /\ Classified(file)[2] = UserAgent(<<WILDCARD_BYTE>>)
    /\ Classified(file)[3] = RuleLine("Disallow", <<SLASH>>)
    /\ path = <<SLASH>>
    /\ result = TRUE

\* ------------------------------------------------- C21: errors and panics

\* every line of the file is text read_line can return
Readable(f) == \A i \in DOMAIN f : read_line_ok(f[i])

\* C21: Compiler::compile returns Err only when reading the source fails, and
\* on a file that is readable text, whatever its lines hold (unknown keys,
\* multi-byte characters at any position, stray rules or headers), it neither
\* returns Err nor panics: every line is classified and a matcher is returned.
C21_TextNeverFails ==
    /\ pc = "err" => ~Readable(file)
    /\ Readable(file) => pc \notin {"err", "panicked"}

\* ------------------------------------------------ C22: allow never fails

\* C22: the allow query never fails.  On the matcher either compile builds
\* from any rule list, every path gets a boolean: the deterministic matcher
\* finds a transition for every byte, ends in a state that exists and is Allow
\* or Disallow, so that no unwrap() and no unreachable!() is hit.
C22_AllowNeverFails ==
    /\ pc = "allowed" => result \in BOOLEAN
    /\ pc = "dfa_allowed" => dfa_result \in {<<TRUE>>, <<FALSE>>}

\* the same for rule lists without a Delay rule
C22_AllowNeverFailsWithoutDelay ==
    (\A i \in DOMAIN nfa_rules : nfa_rules[i].kind # "Delay")
        => C22_AllowNeverFails

\* ------------------------------------------------------ C23: mid-word `$`

\* the pattern u$w of the list, and its u
MidWord == Last(nfa_rules).inner

Stem == SubSeq(MidWord, 1, (CHOOSE i \in DOMAIN MidWord : MidWord[i] = EOW_BYTE) - 1)

\* some rule v$ of the list has p = v
AnchoredAt(p) ==
    \E i \in DOMAIN nfa_rules :
        /\ nfa_rules[i].inner \in AnchoredPatterns
        /\ nfa_rules[i].inner = p \o <<EOW_BYTE>>

\* both matchers have answered for the path
BothAsked == pc = "dfa_allowed"

C23_WitnessAnchored ==
    /\ BothAsked
    /\ AnchoredAt(path)
    /\ dfa_result = <<FALSE>>

\* ----------------------------------------------------- C24: crawl delay

\* the crawl-delay values of a group's rule lines that are decimal numbers
DelayValues(rs) ==
    {parse_u64(rs[i].inner)[1] :
        i \in {j \in DOMAIN rs : rs[j].kind = "Delay" /\ parse_u64(rs[j].inner) # <<>>}}

\* the least of them, as an Option
LeastDelay(rs) ==
    IF DelayValues(rs) = {} THEN <<>>
    ELSE <<CHOOSE d \in DelayValues(rs) : \A e \in DelayValues(rs) : d <= e>>

\* no Allow or Disallow line of the group has the value of a crawl-delay line
NoSharedValue(rs) ==
    \A i, j \in DOMAIN rs :
        rs[i].kind = "Delay" /\ rs[j].kind # "Delay" => rs[i].inner # rs[j].inner

\* C24: delay() is the least crawl-delay value of the selected group (the
\* rule lines Compiler::compile kept) that parses as a decimal u64, and None
\* when the group has no crawl-delay line or none parses; the lines of the
\* other groups are not used.
C24_DelayIsGroupMinimum ==
    pc \in {"compiled", "allowed"} => delay = LeastDelay(rules)

\* the same for a group where no Allow or Disallow value is also the value of
\* a crawl-delay line
C24_DelayIsGroupMinimumNoSharedValue ==
    pc \in {"compiled", "allowed"} /\ NoSharedValue(rules)
        => delay = LeastDelay(rules)

\* ------------------------------------------- C25: the two formulations

\* C25: the two formulations agree on well-formed input.  For a list of Allow
\* and Disallow rules whose patterns hold `$` at most as their last byte, and
\* a non-empty path, dfa allow and nfa allow return the same verdict.
C25_FormulationsAgree ==
    /\ BothAsked
    /\ path # <<>>
    /\ AllWellFormed(nfa_rules)
    /\ \A i \in DOMAIN nfa_rules : nfa_rules[i].kind \in Kinds
    => dfa_result = <<result>>

\* ------------------------------------------------- C26: runs of `*`

\* q holds two `*` in a row
HasStarRun(q) ==
    \E i \in 1..(Len(q) - 1) : q[i] = WILDCARD_BYTE /\ q[i + 1] = WILDCARD_BYTE

\* q with every run of `*` replaced by one `*`
RECURSIVE Collapse(_)
Collapse(q) ==
    IF Len(q) < 2 THEN q
    ELSE IF q[1] = WILDCARD_BYTE /\ q[2] = WILDCARD_BYTE THEN Collapse(Tail(q))
    ELSE <<q[1]>> \o Collapse(Tail(q))

\* C26: consecutive `*` collapse to one.  The matcher compiled from a single
\* rule whose pattern holds a run of two or more `*` gives on every path the
\* verdict of the matcher compiled from the same rule with each run replaced
\* by one `*`.
C26_StarRunCollapses ==
    pc = "allowed" /\ HasStarRun(Pattern) =>
        result = nfa_allow(nfa_compile(<<Rule(nfa_rules[1].kind, Collapse(Pattern))>>),
                           path)

\* ------------------------------------------------ C27: group rule lists

\* the rule lines of f between the last user-agent line at or before line pos
\* and the next user-agent line (or the end of f), in file order
RulesBetween(f, pos) ==
    LET h == Max({j \in 1..pos : f[j].type = "UserAgent"})
        n == CHOOSE j \in (h + 1)..(Len(f) + 1) :
                /\ j = Len(f) + 1 \/ f[j].type = "UserAgent"
                /\ \A k \in (h + 1)..(j - 1) : f[k].type # "UserAgent"
        lines == SelectSeq(SubSeq(f, h + 1, n - 1), IsRuleLine)
    IN [k \in DOMAIN lines |-> lines[k].rule]

\* C27: group rule lists are exact.  Whatever groups were skipped or read
\* before, the rule list Compiler::compile gets for the group it selects is
\* the rule lines between that group's header and the next user-agent line
\* (or the end of input), in file order, the rule next_header buffered first.
C27_GroupRulesExact ==
    [][pc = "find" /\ agent' # agent
        => rules' = RulesBetween(Classified(file), group_reader.pos)]_vars

\* a group of two rule lines selected after a group that was skipped and
\* holds a rule of its own
C27_Witness ==
    /\ pc = "next_header"
    /\ identity = <<97, 98>>
    /\ Len(rules) = 2
    /\ agent = <<97, 98>>
    /\ group_reader.pos = 5
    /\ Classified(file)[1] = UserAgent(<<97, 98, 99>>)
    /\ Classified(file)[2].type = "Rule"
    /\ Classified(file)[3] = UserAgent(<<97, 98>>)
    /\ rules = <<Classified(file)[4].rule, Classified(file)[5].rule>>

\* a group selected after another one was selected: the list is replaced
C27_WitnessReplaced ==
    /\ pc = "next_header"
    /\ agent = <<97, 98, 99>>
    /\ Classified(file)[1] = UserAgent(<<97, 98>>)
    /\ Classified(file)[2] = RuleLine("Disallow", <<SLASH>>)
    /\ Classified(file)[3] = UserAgent(<<97, 98, 99>>)
    /\ rules = <<RuleLine("Allow", <<SLASH>>).rule>>

\* ------------------------------------------ C28: a rule before any header

\* the line of f that is classified first, when it is a rule line
FirstRule(f) ==
    {i \in DOMAIN f : f[i].type = "Rule" /\ \A j \in 1..(i - 1) : f[j].type = "Nothing"}

\* C28: when the first classified line of the file is a rule, the first
\* next_header() returns None having read up to that line, no group is looked
\* at, and the matcher compiled allows every path, whatever the identity and
\* whatever groups follow in the file.
C28_FirstLineRuleAllowsAll ==
    \A i \in FirstRule(Classified(file)) :
        /\ pc \notin {"new", "next_header"} =>
                /\ pc \in {"filter_dupes", "compiled", "allowed"}
                /\ agents = <<>>
                /\ group_reader.pos = i
        /\ pc \in {"compiled", "allowed"} =>
                /\ nfa_rules = <<>>
                /\ \A p \in GroupPaths : nfa_allow(states, p)

\* `Disallow: /` stands first, a group for `ab` that disallows `/` follows,
\* and the matcher compiled for the identity ab has allowed `/`
C28_Witness ==
    /\ pc = "allowed"
    /\ identity = <<97, 98>>
    /\ Len(file) >= 3
    /\ Classified(file)[1] = RuleLine("Disallow", <<SLASH>>)
    /\ Classified(file)[2] = UserAgent(<<97, 98>>)
    /\ Classified(file)[3] = RuleLine("Disallow", <<SLASH>>)
    /\ agent = <<>>
    /\ result = TRUE

\* -------------------------------------------------- C29: the active set

\* the largest number of `*` in one pattern of the list
MostStars(rs) == Max({0} \cup {Cardinality(Stars(rs[i].inner)) : i \in DOMAIN rs})

\* the path allow() walks: `/` for the empty one
Walked(p) == IF p = <<>> THEN <<SLASH>> ELSE p

\* the size of current_states in allow() after the first k bytes of p
ActiveAfter(p, k) == Cardinality(ActiveStates(states, SubSeq(Walked(p), 1, k), 1, {0}))

\* C29: active-set bound.  During allow on the non-deterministic matcher the
\* number of active states after each byte is at most the largest number of
\* `*` in one pattern plus two (the two states one literal rule keeps active),
\* however many literal rules the list holds and however many of them are
\* prefixes of the path.
C29_ActiveSetBounded ==
    pc = "allowed" =>
        \A k \in 1..Len(Walked(path)) : ActiveAfter(path, k) <= MostStars(nfa_rules) + 2

\* ------------------------------------- C30: the structure of the matcher

\* longest pattern tail, after the leading `/`, of the matchers whose
\* structure is followed
MaxStructLen == 2

StructPatterns == {<<SLASH>> \o t : t \in Strings(PatBytes, 0, MaxStructLen)}

\* nfa::Cylon::compile of a list of two rules, then queries
InitStruct ==
    /\ pc = "compile"
    /\ nfa_rules \in {<<Rule(k1, q1), Rule(k2, q2)>> :
                        k1 \in Kinds, k2 \in Kinds,
                        q1 \in StructPatterns, q2 \in StructPatterns}
    /\ file = <<>>
    /\ identity = <<>>
    /\ user_agent = <<>>
    /\ group_reader = GroupReader
    /\ agents = <<>>
    /\ agent = <<>>
    /\ rules = <<>>
    /\ states = <<>>
    /\ path = <<>>
    /\ result = TRUE
    /\ delay = <<>>
    /\ dfa = [states |-> <<>>, transitions |-> <<>>]
    /\ dfa_result = <<>>

NextStruct == Compile \/ Allow(GroupPaths)

SpecStruct == InitStruct /\ [][NextStruct]_vars

\* every edge and every wildcard of every node leads to an existing state
TargetsExist(sts) ==
    \A i \in DOMAIN sts :
        /\ \A j \in DOMAIN sts[i].edges : sts[i].edges[j][2] \in 0..(Len(sts) - 1)
        /\ \A j \in DOMAIN sts[i].wildcards : sts[i].wildcards[j] \in 0..(Len(sts) - 1)

\* current_states in allow() after the first k bytes of p
ActiveSet(p, k) == ActiveStates(states, SubSeq(Walked(p), 1, k), 1, {0})

\* C30: structural invariant of the non-deterministic matcher.  After
\* Cylon::compile every edge target and every wildcard target of every node
\* is the index of an existing state, and during allow the active set is
\* non-empty after every byte and holds existing states only: allow never
\* skips a missing state and never answers true for want of an active state.
C30_TargetsExistActiveNonEmpty ==
    /\ pc \in {"compiled", "allowed"} => TargetsExist(states)
    /\ pc = "allowed" =>
            \A k \in 0..Len(Walked(path)) :
                /\ ActiveSet(path, k) # {}
                /\ ActiveSet(path, k) \subseteq 0..(Len(states) - 1)

\* a matcher of two rules with a `*`, a `$` and a terminal literal byte has
\* walked a path of three bytes with more than two states active at the end
C30_Witness ==
    /\ pc = "allowed"
    /\ Len(path) = 3
    /\ \E i, j \in DOMAIN nfa_rules :
            /\ WILDCARD_BYTE \in Range(nfa_rules[i].inner)
            /\ EOW_BYTE \in Range(nfa_rules[j].inner)
    /\ \E i \in DOMAIN states : states[i].edges # <<>> /\ states[i].wildcards # <<>>
    /\ Cardinality(ActiveSet(path, 3)) > 2

====
